---- MODULE Spec2Model ----
(***************************************************************************)
(* A model of the FinSearch retrieval core: the relevance filter           *)
(* (keyword_match), the content extractor (data_scrape), the source        *)
(* orchestrator and retrieval composer (create_advanced_response,          *)
(* get_sources) and the ingestion pipeline (upload_folder).                *)
(*                                                                         *)
(* Text is a sequence of one-character strings, so that lower-casing,      *)
(* whitespace splitting and substring search are computed, not assumed.    *)
(***************************************************************************)
EXTENDS Integers, Sequences, FiniteSets, TLC

VARIABLES
    \* keyword_match called on its own
    kw_pc, kw_tokens, kw_query, kw_text, kw_result,
    \* data_scrape called on its own
    ds_pc, ds_url, ds_outcome, ds_info,
    \* the orchestrator: process-wide state
    used_urls, preferred_file, sources_query, sources_result,
    \* the orchestrator: one record of locals per run of create_advanced_response
    pc, user_input, caller_list, message_list, preferred_urls, next_url,
    preferred_info_list, context_messages, search_urls, search_raises,
    search_calls, scraped,
    \* ingestion: the two persisted artifacts and the call in progress
    embeddings_pkl, faiss_idx, up_pc, up_data, up_chunks, up_response,
    up_before,
    \* remove_duplicate_sentences called on its own
    rd_pc, rd_parts, rd_text, rd_result,
    \* views.py: the response of the get_preferred_urls endpoint
    vw_urls,
    \* views.py: the global message_list, the last request of the chat
    \* endpoints, the backend calls it made and its response
    vw_message_list, vw_request, vw_calls, vw_response,
    \* fetch_fx_exchange_rates: the call in progress; fx_log is the history of
    \* the pairs it has handled
    fx_pc, fx_pairs, fx_i, fx_rates, fx_log,
    \* fetch_financial_news: the configured key, the call in progress, the
    \* requests it has sent, the response it got and what it returned
    NEWSAPI_KEY, nw_pc, nw_requests, nw_outcome, nw_result,
    \* generate_simple_line_chart: the files of the charts directory, the
    \* clock, and the last call with the files before it and what it returned
    ch_files, ch_clock, ch_call, ch_before, ch_result,
    \* generate_hourly_financial_report: the environment's keys, the call in
    \* progress with its locals tools_list and wandb_run, the calls it has made
    \* to W&B and to the agent, and what it returned
    rp_env, rp_pc, rp_tools_list, rp_wandb_run, rp_events, rp_result,
    \* views.py: the responder calls of the last chat or advanced request,
    \* each with the list it was handed and that list as the responder left it
    vw_seen

chVars == <<ch_files, ch_clock, ch_call, ch_before, ch_result>>
rpVars == <<rp_env, rp_pc, rp_tools_list, rp_wandb_run, rp_events, rp_result>>
advVars == <<vw_seen>>
lateVars == <<chVars, rpVars, advVars>>
fxVars == <<fx_pc, fx_pairs, fx_i, fx_rates, fx_log>>
nwVars == <<NEWSAPI_KEY, nw_pc, nw_requests, nw_outcome, nw_result>>
rdVars == <<rd_pc, rd_parts, rd_text, rd_result>>
chatVars == <<vw_message_list, vw_request, vw_calls, vw_response>>
viewVars == <<vw_urls, chatVars>>
\* the functions and endpoints that are called on their own
otherVars == <<rdVars, viewVars, fxVars, nwVars, lateVars>>
kwVars == <<kw_pc, kw_tokens, kw_query, kw_text, kw_result, ds_pc, ds_url, ds_outcome, ds_info,
            otherVars>>
globalVars == <<used_urls, preferred_file, sources_query, sources_result>>
runVars == <<pc, user_input, caller_list, message_list, preferred_urls, next_url,
             preferred_info_list, context_messages, search_urls, search_raises,
             search_calls, scraped>>
upVars == <<embeddings_pkl, faiss_idx, up_pc, up_data, up_chunks, up_response,
            up_before>>
vars == <<kwVars, globalVars, runVars, upVars>>

(***************************************************************************)
(* Bounds of the model.                                                    *)
(***************************************************************************)
MaxQueryTokens == 4
MaxTextTokens == 2
MaxPreferred == 2
MaxSearch == 2
MaxDocs == 2
MaxSentences == 4
MaxMessages == 3
MaxPairs == 2
MaxArticles == 2
MaxCharts == 2
MaxPoints == 2

(***************************************************************************)
(* Python values.                                                          *)
(***************************************************************************)
\* None, comparable with the sequences that model strings and lists
None == <<"None">>

Max(a, b) == IF a >= b THEN a ELSE b

\* dict.get(key, default)
Get(d, key, default) == IF key \in DOMAIN d THEN d[key] ELSE default

\* Python truthiness of a str-or-None value
Truthy(v) == v # None /\ v # <<>>

(***************************************************************************)
(* Strings.                                                                *)
(***************************************************************************)
\* the Latin letters, and the Greek ones of the inputs
UpperCase == <<"A","B","C","D","E","F","G","H","I","J","K","L","M",
               "N","O","P","Q","R","S","T","U","V","W","X","Y","Z",
               "Α","Γ","Λ","Ο","Σ">>
LowerCase == <<"a","b","c","d","e","f","g","h","i","j","k","l","m",
               "n","o","p","q","r","s","t","u","v","w","x","y","z",
               "α","γ","λ","ο","σ">>

Whitespace == {" ", "\t", "\n"}

LowerChar(c) ==
    IF \E i \in 1..Len(UpperCase) : UpperCase[i] = c
    THEN LowerCase[CHOOSE i \in 1..Len(UpperCase) : UpperCase[i] = c]
    ELSE c

\* the characters that have a case, and those str.lower() looks through
\* when it decides how a capital sigma is lowered
Cased(c) == c = "ς" \/ \E i \in 1..Len(UpperCase) : c \in {UpperCase[i], LowerCase[i]}
CaseIgnorable == {"'", ".", ":"}

\* the capital sigma at position i ends a word: a cased character comes
\* before it and none after it, case-ignorable characters skipped
FinalSigma(s, i) ==
    LET before == {j \in 1..(i - 1) : s[j] \notin CaseIgnorable}
        after == {j \in (i + 1)..Len(s) : s[j] \notin CaseIgnorable}
    IN /\ before # {}
       /\ Cased(s[CHOOSE j \in before : \A k \in before : k <= j])
       /\ after # {} => ~Cased(s[CHOOSE j \in after : \A k \in after : j <= k])

\* str.lower(): character by character, but for the capital sigma, which
\* becomes the final form at the end of a word
Lower(s) ==
    [i \in 1..Len(s) |->
        IF s[i] = "Σ" /\ FinalSigma(s, i) THEN "ς" ELSE LowerChar(s[i])]

\* `a in b` for strings
IsSubstring(a, b) ==
    \E i \in 0..(Len(b) - Len(a)) : SubSeq(b, i + 1, i + Len(a)) = a

\* the k-th smallest element of a set of numbers
NthOf(S, k) == CHOOSE i \in S : Cardinality({j \in S : j <= i}) = k

\* the first index at or after i that holds whitespace, Len(s) + 1 if none
NextWhitespace(s, i) ==
    LET later == {j \in i..Len(s) : s[j] \in Whitespace}
    IN IF later = {} THEN Len(s) + 1 ELSE NthOf(later, 1)

\* the first index at or after i that is not whitespace, Len(s) + 1 if none
SkipWhitespace(s, i) ==
    LET later == {j \in i..Len(s) : s[j] \notin Whitespace}
    IN IF later = {} THEN Len(s) + 1 ELSE NthOf(later, 1)

\* str.strip()
LStrip(s) == SubSeq(s, SkipWhitespace(s, 1), Len(s))

RStrip(s) ==
    LET solid == {j \in 1..Len(s) : s[j] \notin Whitespace}
    IN IF solid = {} THEN <<>> ELSE SubSeq(s, 1, NthOf(solid, Cardinality(solid)))

Strip(s) == RStrip(LStrip(s))

\* str.split() with no argument: the maximal runs of non-whitespace
Split(s) ==
    LET starts == {i \in 1..Len(s) :
                      s[i] \notin Whitespace /\ (i = 1 \/ s[i - 1] \in Whitespace)}
    IN [k \in 1..Cardinality(starts) |->
           SubSeq(s, NthOf(starts, k), NextWhitespace(s, NthOf(starts, k)) - 1)]

\* sep.join(parts)
RECURSIVE Join(_, _)
Join(sep, parts) ==
    IF parts = <<>> THEN <<>>
    ELSE IF Len(parts) = 1 THEN parts[1]
    ELSE parts[1] \o sep \o Join(sep, Tail(parts))

RECURSIVE Concat(_)
Concat(parts) ==
    IF parts = <<>> THEN <<>> ELSE Head(parts) \o Concat(Tail(parts))

\* n copies of the character c
Rep(c, n) == [i \in 1..n |-> c]

SeqsUpTo(S, n) == UNION {[1..k -> S] : k \in 0..n}

\* the sequences of at most n distinct elements of S
DistinctSeqsUpTo(S, n) ==
    {f \in SeqsUpTo(S, n) : \A i, j \in 1..Len(f) : i # j => f[i] # f[j]}

(***************************************************************************)
(* remove_duplicate_sentences: re.split(r'(?<=[.!?])\s+', text), drop a    *)
(* sentence equal to the one kept last, join with one space.               *)
(***************************************************************************)
SentenceEnd == {".", "!", "?"}

\* re.split(r'(?<=[.!?])\s+', s): a separator is a whitespace run that
\* starts right after a sentence-ending character; n separators give n + 1
\* pieces
SplitSentences(s) ==
    LET seps == {i \in 2..Len(s) : s[i] \in Whitespace /\ s[i - 1] \in SentenceEnd}
        n == Cardinality(seps)
    IN [k \in 1..(n + 1) |->
           SubSeq(s,
                  IF k = 1 THEN 1 ELSE SkipWhitespace(s, NthOf(seps, k - 1)),
                  IF k = n + 1 THEN Len(s) ELSE NthOf(seps, k) - 1)]

\* faulty variant of UniqueSentences: a sentence is compared with the first
\* sentence kept, not the last
RECURSIVE UniqueSentencesFirstKept(_, _)
UniqueSentencesFirstKept(sentences, unique) ==
    IF sentences = <<>> THEN unique
    ELSE IF unique = <<>> \/ Head(sentences) # unique[1]
         THEN UniqueSentencesFirstKept(Tail(sentences), Append(unique, Head(sentences)))
         ELSE UniqueSentencesFirstKept(Tail(sentences), unique)

\* lines 32-36
RECURSIVE UniqueSentences(_, _)
UniqueSentences(sentences, unique) ==
    IF sentences = <<>> THEN unique
    ELSE IF unique = <<>> \/ Head(sentences) # unique[Len(unique)]
         THEN UniqueSentences(Tail(sentences), Append(unique, Head(sentences)))
         ELSE UniqueSentences(Tail(sentences), unique)

\* faulty variant of remove_duplicate_sentences: a sentence seen anywhere before
\* is dropped
remove_duplicate_sentences_anywhere(text) ==
    LET sentences == SplitSentences(text)
        first == {i \in 1..Len(sentences) : \A j \in 1..(i - 1) : sentences[j] # sentences[i]}
        F[i \in 0..Len(sentences)] ==
            IF i = 0 THEN <<>>
            ELSE IF i \in first THEN Append(F[i - 1], sentences[i]) ELSE F[i - 1]
    IN Join(<<" ">>, F[Len(sentences)])

remove_duplicate_sentences(text) ==
    Join(<<" ">>, UniqueSentences(SplitSentences(text), <<>>))

(***************************************************************************)
(* keyword_match: the relevance filter.                                    *)
(***************************************************************************)
SignificantLen == 3

SignificantWords(query) ==
    SelectSeq(Split(Lower(query)), LAMBDA w : Len(w) > SignificantLen)

MatchCount(words, text) ==
    Cardinality({i \in 1..Len(words) : IsSubstring(words[i], Lower(text))})

\* faulty variant of Threshold: half of the significant words, rounded up
ThresholdRoundedUp(words) == Max(1, (Len(words) + 1) \div 2)

Threshold(words) == Max(1, Len(words) \div 2)

\* faulty variant of keyword_match: without significant words, any token of the
\* query found in the text is enough
keyword_match_any_token(query, text) ==
    LET words == SignificantWords(query)
        tokens == Split(Lower(query))
    IN IF words = <<>>
       THEN \/ tokens = <<>>
            \/ \E i \in 1..Len(tokens) : IsSubstring(tokens[i], Lower(text))
       ELSE MatchCount(words, text) >= Threshold(words)

keyword_match(query, text) ==
    LET words == SignificantWords(query) IN
    IF words = <<>>
    THEN IsSubstring(Lower(query), Lower(text))
    ELSE MatchCount(words, text) >= Threshold(words)

(***************************************************************************)
(* data_scrape: the content extractor.  A parsed page is                   *)
(*   [title, description, body], body a sequence of nodes                  *)
(*   [tag, class, text, children], children a sequence of leaf nodes.      *)
(* The outcome of requests.get is an input:                                *)
(*   [kind |-> "response", status_code, page]                              *)
(*   [kind |-> "timeout"]            requests.exceptions.Timeout           *)
(*   [kind |-> "exception", message] any other exception, raised by the    *)
(*                                   fetch or by the parsing that follows  *)
(***************************************************************************)
DefaultTimeout == 10
ParagraphMinLen == 50
ContentMinLen == 200
StatusOK == 200

RemovedTags == {"script", "style", "nav", "footer", "aside"}
ContainerTags == {"article", "main", "div", "section"}
HeadingTags == {"h1", "h2", "h3", "h4", "h5", "h6"}
TextTags == HeadingTags \cup {"p"}

ClassTerms == { <<"c","o","n","t","e","n","t">>, <<"a","r","t","i","c","l","e">>,
                <<"m","a","i","n">>, <<"p","o","s","t">>, <<"e","n","t","r","y">> }

\* lines 72-77: title and meta description, each only when present and non-empty
ExtractMetadata(page) ==
    LET keys == (IF Truthy(page.title) THEN {"title"} ELSE {})
                \cup (IF Truthy(page.description) THEN {"description"} ELSE {})
    IN [k \in keys |-> IF k = "title" THEN Strip(page.title)
                                       ELSE Strip(page.description)]

\* lines 80-81: element.decompose() for every non-content element
Decompose(body) ==
    LET kept == SelectSeq(body, LAMBDA n : n.tag \notin RemovedTags)
    IN [i \in 1..Len(kept) |->
          [kept[i] EXCEPT !.children =
              SelectSeq(kept[i].children, LAMBDA c : c.tag \notin RemovedTags)]]

\* lines 85-87: the class-marked content containers
IsContentElement(n) ==
    /\ n.tag \in ContainerTags
    /\ n.class # <<>>
    /\ \E term \in ClassTerms : IsSubstring(term, Lower(n.class))

\* element.find_all(['h1', ..., 'p'])
TextTagsOf(n) == SelectSeq(n.children, LAMBDA c : c.tag \in TextTags)

\* soup.find_all(['h1', ..., 'p']), in document order
RECURSIVE AllTextTags(_)
AllTextTags(body) ==
    IF body = <<>> THEN <<>>
    ELSE (IF Head(body).tag \in TextTags THEN <<Head(body)>> ELSE TextTagsOf(Head(body)))
         \o AllTextTags(Tail(body))

\* tag.get_text(strip=True)
TagText(tag) == Strip(tag.text)

\* lines 93 and 100: a heading ends with a newline, a paragraph with a space
Piece(tag) ==
    TagText(tag) \o (IF tag.tag \in HeadingTags THEN <<"\n">> ELSE <<" ">>)

RECURSIVE PiecesOf(_)
PiecesOf(tags) ==
    IF tags = <<>> THEN <<>> ELSE Piece(Head(tags)) \o PiecesOf(Tail(tags))

\* lines 88-93: step 1, the text of the content containers
RECURSIVE ContainerContent(_)
ContainerContent(elements) ==
    IF elements = <<>> THEN <<>>
    ELSE PiecesOf(SelectSeq(TextTagsOf(Head(elements)), LAMBDA t : TagText(t) # <<>>))
         \o ContainerContent(Tail(elements))

\* lines 96-100: step 2, every heading and every long enough paragraph
DocumentContent(body) ==
    PiecesOf(SelectSeq(AllTextTags(body),
                LAMBDA t : TagText(t) # <<>>
                           /\ (t.tag \in HeadingTags \/ Len(TagText(t)) > ParagraphMinLen)))

\* the strings of the document in document order, the title's first
RECURSIVE NodeStrings(_)
NodeStrings(nodes) ==
    IF nodes = <<>> THEN <<>>
    ELSE <<Head(nodes).text>> \o NodeStrings(Head(nodes).children)
         \o NodeStrings(Tail(nodes))

\* lines 104-105: soup.get_text(separator=' ', strip=True), whitespace-normalised
FullPageText(page, body) ==
    LET strings == (IF page.title = None THEN <<>> ELSE <<page.title>>)
                   \o NodeStrings(body)
        stripped == [i \in 1..Len(strings) |-> Strip(strings[i])]
        all_text == Join(<<" ">>, SelectSeq(stripped, LAMBDA x : x # <<>>))
    IN Join(<<" ">>, Split(all_text))

\* faulty variant of MainContent: the ladder stops after the heading and
\* paragraph pass
MainContentNoFullText(page) ==
    LET body == Decompose(page.body)
        step1 == ContainerContent(SelectSeq(body, IsContentElement))
    IN IF step1 = <<>> THEN DocumentContent(body) ELSE step1

\* faulty variant of MainContent: step 2 is entered only when no container matches
MainContentByMatch(page) ==
    LET body == Decompose(page.body)
        content_elements == SelectSeq(body, IsContentElement)
        step1 == ContainerContent(content_elements)
        step2 == IF content_elements = <<>> THEN DocumentContent(body) ELSE step1
    IN IF step2 = <<>> \/ Len(step2) < ContentMinLen
       THEN FullPageText(page, body)
       ELSE step2

\* lines 83-105: the content-selection ladder
MainContent(page) ==
    LET body == Decompose(page.body)
        content_elements == SelectSeq(body, IsContentElement)
        step1 == ContainerContent(content_elements)
        step2 == IF step1 = <<>> THEN DocumentContent(body) ELSE step1
    IN IF step2 = <<>> \/ Len(step2) < ContentMinLen
       THEN FullPageText(page, body)
       ELSE step2

ErrorInfo(url, reason) == [url |-> url, status |-> "error", error |-> reason]

\* faulty variant of data_scrape: only the timeout is caught, any other exception escapes
data_scrape_timeout_only(url, outcome) ==
    CASE outcome.kind = "timeout" ->
           ErrorInfo(url, <<"Timeout after seconds", DefaultTimeout>>)
      [] outcome.kind = "exception" ->
           [url |-> url, raised |-> outcome.message]
      [] outcome.kind = "response" ->
           IF outcome.status_code # StatusOK
           THEN ErrorInfo(url, <<"Status code", outcome.status_code>>)
           ELSE [url |-> url, status |-> "success",
                 metadata |-> ExtractMetadata(outcome.page),
                 content |-> remove_duplicate_sentences(MainContent(outcome.page))]

\* faulty variant of data_scrape: every 2xx status is taken for a page
data_scrape_any_2xx(url, outcome) ==
    CASE outcome.kind = "timeout" ->
           ErrorInfo(url, <<"Timeout after seconds", DefaultTimeout>>)
      [] outcome.kind = "exception" ->
           ErrorInfo(url, <<"Exception", outcome.message>>)
      [] outcome.kind = "response" ->
           IF outcome.status_code \div 100 # 2
           THEN ErrorInfo(url, <<"Status code", outcome.status_code>>)
           ELSE [url |-> url, status |-> "success",
                 metadata |-> ExtractMetadata(outcome.page),
                 content |-> remove_duplicate_sentences(MainContent(outcome.page))]

data_scrape(url, outcome) ==
    CASE outcome.kind = "timeout" ->
           ErrorInfo(url, <<"Timeout after seconds", DefaultTimeout>>)
      [] outcome.kind = "exception" ->
           ErrorInfo(url, <<"Exception", outcome.message>>)
      [] outcome.kind = "response" ->
           IF outcome.status_code # StatusOK
           THEN ErrorInfo(url, <<"Status code", outcome.status_code>>)
           ELSE [url |-> url, status |-> "success",
                 metadata |-> ExtractMetadata(outcome.page),
                 content |-> remove_duplicate_sentences(MainContent(outcome.page))]

(***************************************************************************)
(* The orchestrator's world: curated URL file, pages, fetch outcomes.      *)
(* A URL is a sequence of atoms, so that a line of the curated file can be *)
(* stripped; the blank URL is the empty sequence.                          *)
(***************************************************************************)
UrlP1 == <<"http://p1">>
UrlP2 == <<"http://p2">>
UrlS1 == <<"http://s1">>
UrlS2 == <<"http://s2">>

\* lines of preferred_urls.txt, as file.readlines() returns them; no line twice,
\* as add_preferred_url refuses a URL the file holds already
PreferredLines == { <<"http://p1", "\n">>, <<" ", "http://p2", " ", "\n">>, <<"\n">> }
NoFile == [exists |-> FALSE, lines |-> <<>>]
PreferredFiles ==
    {NoFile} \cup {[exists |-> TRUE, lines |-> l] : l \in DistinctSeqsUpTo(PreferredLines, MaxPreferred)}

QueryRateHike == <<"r","a","t","e"," ","h","i","k","e">>
QueryFx == <<"f","x">>
Queries == {QueryRateHike, QueryFx}

Leaf(tag, text) == [tag |-> tag, class |-> <<>>, text |-> text, children |-> <<>>]

\* <title>Rates</title><p>The Fed rate hike. The Fed rate hike.</p><script>..</script>
PageRates ==
    [title |-> <<"R","a","t","e","s">>,
     description |-> None,
     body |-> << Leaf("p", <<"T","h","e"," ","F","e","d"," ","r","a","t","e"," ",
                            "h","i","k","e","."," ","T","h","e"," ","F","e","d"," ",
                            "r","a","t","e"," ","h","i","k","e",".">>),
                 Leaf("script", <<"f","x">>) >>]

\* <meta name="description" content="Markets"><div class="post"><h1> FX desk </h1><p>fx swaps today</p></div>
PageFx ==
    [title |-> None,
     description |-> <<"M","a","r","k","e","t","s">>,
     body |-> << [tag |-> "div", class |-> <<"p","o","s","t">>, text |-> <<>>,
                  children |-> << Leaf("h1", <<" ","F","X"," ","d","e","s","k"," ">>),
                                  Leaf("p", <<"f","x"," ","s","w","a","p","s"," ",
                                              "t","o","d","a","y">>) >>] >>]

\* <html></html>
PageEmpty == [title |-> None, description |-> None, body |-> <<>>]

Response(code, page) == [kind |-> "response", status_code |-> code, page |-> page]
Timeout == [kind |-> "timeout"]
Raises(message) == [kind |-> "exception", message |-> message]

\* what requests.get(url) can do: the blank URL has no scheme and always raises
FetchOutcomes(url) ==
    IF url = <<>>
    THEN {Raises("Invalid URL '': No scheme supplied")}
    ELSE {Response(StatusOK, PageRates), Response(StatusOK, PageFx),
          Response(404, PageEmpty), Timeout, Raises("Connection refused")}

(***************************************************************************)
(* Conversation messages.                                                  *)
(***************************************************************************)
SystemPrompt ==
    [role |-> "system",
     content |-> "You are a helpful financial assistant. Always answer questions to the best of your ability."]

Instruction ==
    "You are to use provided context as fact and not your own knowledge as the context provided is the most up-to-date information.\n\n"

\* the calls of create_advanced_response: a query and the caller's conversation
Requests ==
    { <<QueryRateHike, <<SystemPrompt>>>>,
      <<QueryFx, <<SystemPrompt, [role |-> "user", content |-> "earlier question"]>>>> }

\* lines 255-264 and 276-285: the URL / Title / Description / Content template
Combined(info) ==
    LET metadata == Get(info, "metadata", <<>>)
    IN << "URL: ", info.url,
          "\nTitle: ", Get(metadata, "title", <<>>),
          "\nDescription: ", Get(metadata, "description", <<>>),
          "\nContent: ", Get(info, "content", <<>>) >>

ContextMessage(info) == [role |-> "user", content |-> Combined(info)]

\* lines 295-298
FinalMessage(query) == [role |-> "user", content |-> <<Instruction, query>>]

\* the test of lines 148, 253, 269 and 274
Relevant(query, info) ==
    info.status = "success" /\ keyword_match(query, Get(info, "content", <<>>))

(***************************************************************************)
(* get_preferred_urls (datascraper.py): every line of the file, stripped.  *)
(***************************************************************************)
get_preferred_urls(file) ==
    IF ~file.exists THEN <<>> ELSE [i \in 1..Len(file.lines) |-> Strip(file.lines[i])]

(***************************************************************************)
(* get_preferred_urls (views.py), the endpoint: the non-empty stripped     *)
(* lines of the same file; a missing or unreadable file gives no URL.      *)
(***************************************************************************)
NoUrlsResponse == [status |-> 0, urls |-> <<>>, io_error |-> FALSE]

views_get_preferred_urls(file, readable) ==
    LET stripped == [i \in 1..Len(file.lines) |-> Strip(file.lines[i])]
    IN [status |-> 200,
        urls |-> IF file.exists /\ readable
                 THEN SelectSeq(stripped, LAMBDA line : line # <<>>)
                 ELSE <<>>,
        io_error |-> file.exists /\ ~readable]

GetPreferredUrls(readable) ==
    /\ vw_urls' = views_get_preferred_urls(preferred_file, readable)
    /\ UNCHANGED <<lateVars, chatVars, kw_pc, kw_tokens, kw_query, kw_text, kw_result, ds_pc, ds_url, ds_outcome,
                   ds_info, rdVars, fxVars, nwVars, globalVars, runVars, upVars>>

(***************************************************************************)
(* views.py: chat_response, clear and add_webtext.  A GET parameter is a   *)
(* string or None when the request does not carry it.  vw_calls counts the *)
(* calls the last request made to each backend.                            *)
(***************************************************************************)
Backends == {"fetch_financial_news", "fetch_fx_exchange_rates", "create_rag_response",
             "create_response"}
NoCalls == [b \in Backends |-> 0]
NoRequest == [endpoint |-> "none"]

\* request.GET.get(key, default)
Param(request, key, default) == IF request[key] = None THEN default ELSE request[key]

\* s.split(','): the pieces between the commas, one more than there are commas
SplitCommas(s) ==
    LET commas == {i \in 1..Len(s) : s[i] = ","}
        n == Cardinality(commas)
    IN [k \in 1..(n + 1) |->
           SubSeq(s, IF k = 1 THEN 1 ELSE NthOf(commas, k - 1) + 1,
                     IF k = n + 1 THEN Len(s) ELSE NthOf(commas, k) - 1)]

Gpt4o == <<"g","p","t","-","4","o">>
NewsService == <<"NewsService">>
FXService == <<"FXService">>
NoNewsFound ==
    <<"No news articles found or an error occurred. Ensure NEWSAPI_KEY is correctly set if real news is expected.">>
NoRatesFound ==
    <<"Could not fetch FX rates at this time. The service might be temporarily unavailable.">>

\* faulty variant of Dispatch: use_rag is tested for truth, and 'false' is a
\* non-empty string
DispatchUseRagTruthy(data_type, use_rag_str) ==
    IF Lower(data_type) = <<"n","e","w","s">> THEN "fetch_financial_news"
    ELSE IF Lower(data_type) = <<"f","x">> THEN "fetch_fx_exchange_rates"
    ELSE IF use_rag_str # <<>> THEN "create_rag_response"
    ELSE "create_response"

\* lines 211, 231, 242, 253: the backend chat_response calls
Dispatch(data_type, use_rag_str) ==
    IF Lower(data_type) = <<"n","e","w","s">> THEN "fetch_financial_news"
    ELSE IF Lower(data_type) = <<"f","x">> THEN "fetch_fx_exchange_rates"
    ELSE IF Lower(use_rag_str) = <<"t","r","u","e">> THEN "create_rag_response"
    ELSE "create_response"

\* lines 243-246
ModelToUse(request) == Strip(SplitCommas(Param(request, "models", Gpt4o))[1])

\* faulty variant of AfterCall: the list itself was handed over, and the
\* caller's list is the one the responder appended to
AfterCallAliased(messages, local) == local

\* lines 256, 260, 287 and 289, message_list.copy(): the responder appends to
\* a list of its own, and the caller's list is after the call what it was
AfterCall(messages, local) == messages

\* datascraper.py lines 155-167: create_rag_response appends its answer, or
\* the text of the FileNotFoundError, to the list it was handed
CreateRagResponse(messages, response) ==
    Append(messages, [role |-> "user", content |-> response])

\* datascraper.py lines 170-218: create_response builds a filtered list of
\* its own and leaves the list it was handed alone
CreateResponse(messages) == messages

\* lines 211-264: result is what the backend returned: a list of articles, a
\* mapping of rates, or the text of the model; raises says that it raised
ChatResponse(request, result, raises) ==
    LET backend == Dispatch(Param(request, "data_type", <<"r","a","g">>),
                            Param(request, "use_rag", <<"f","a","l","s","e">>))
        key == CASE backend = "fetch_financial_news" -> NewsService
                 [] backend = "fetch_fx_exchange_rates" -> FXService
                 [] OTHER -> ModelToUse(request)
        value == CASE backend = "fetch_financial_news" ->
                        (IF result = <<>> THEN NoNewsFound ELSE <<"articles">> \o result)
                   [] backend = "fetch_fx_exchange_rates" ->
                        (IF result = <<>> THEN NoRatesFound ELSE <<"rates">> \o result)
                   [] OTHER -> result
    IN /\ request.endpoint = "chat_response"
       /\ raises => backend \in {"create_rag_response", "create_response"}
       /\ vw_request' = request
       /\ vw_calls' = [NoCalls EXCEPT ![backend] = 1]
       /\ vw_response' = IF raises THEN [status |-> 500]
                         ELSE [status |-> 200, resp |-> [k \in {key} |-> value]]
       /\ vw_seen' =
             CASE backend = "create_rag_response" /\ ~raises ->
                    <<[model |-> key, received |-> vw_message_list,
                       local |-> CreateRagResponse(vw_message_list, result)]>>
               [] backend \in {"create_rag_response", "create_response"} ->
                    <<[model |-> key, received |-> vw_message_list,
                       local |-> CreateResponse(vw_message_list)]>>
               [] OTHER -> <<>>
       /\ vw_message_list' =
             IF vw_seen' = <<>> THEN vw_message_list
             ELSE AfterCall(vw_message_list, vw_seen'[1].local)
       /\ UNCHANGED <<chVars, rpVars, vw_urls, kw_pc, kw_tokens, kw_query, kw_text, kw_result,
                      ds_pc, ds_url, ds_outcome, ds_info, rdVars, fxVars, nwVars, globalVars, runVars, upVars>>

\* lines 298-313
Clear ==
    /\ vw_message_list' = <<SystemPrompt>>
    /\ vw_request' = [endpoint |-> "clear"]
    /\ vw_calls' = NoCalls
    /\ vw_response' = [status |-> 200, resp |-> "Message list cleared successfully."]
    /\ vw_seen' = <<>>
    /\ UNCHANGED <<chVars, rpVars, vw_urls, kw_pc, kw_tokens, kw_query, kw_text, kw_result,
                   ds_pc, ds_url, ds_outcome, ds_info, rdVars, fxVars, nwVars, globalVars, runVars, upVars>>

WebMessage(current_url, text_content) ==
    [role |-> "user", content |-> <<"Context from webpage ", current_url, ":\n", text_content>>]

\* lines 146-184: the message is appended, then _log_interaction is called
\* with a keyword it does not have (button_clicked), the TypeError is caught
\* by `except Exception` and the response is a 500
AddWebtext(request) ==
    /\ request.endpoint = "add_webtext"
    /\ Len(vw_message_list) < MaxMessages
    /\ vw_request' = request
    /\ vw_calls' = NoCalls
    /\ IF request.method # "POST"
       THEN /\ vw_response' = [status |-> 405, error |-> "Invalid request method; use POST."]
            /\ UNCHANGED vw_message_list
       ELSE IF ~request.json
       THEN /\ vw_response' = [status |-> 400, error |-> "Invalid JSON format in request body."]
            /\ UNCHANGED vw_message_list
       ELSE IF ~Truthy(Param(request, "textContent", <<>>))
       THEN /\ vw_response' = [status |-> 400, error |-> "No textContent provided."]
            /\ UNCHANGED vw_message_list
       ELSE /\ vw_message_list' =
                  Append(vw_message_list,
                         WebMessage(Param(request, "currentUrl", <<"N/A">>), request.textContent))
            /\ vw_response' = [status |-> 500, error |-> "An unexpected error occurred"]
    /\ vw_seen' = <<>>
    /\ UNCHANGED <<chVars, rpVars, vw_urls, kw_pc, kw_tokens, kw_query, kw_text, kw_result,
                   ds_pc, ds_url, ds_outcome, ds_info, rdVars, fxVars, nwVars, globalVars, runVars, upVars>>

\* the requests of the chat endpoint
ChatRequests ==
    [endpoint : {"chat_response"},
     data_type : {None, <<"n","e","w","s">>, <<"N","e","w","s">>, <<"F","X">>, <<"p","d","f">>},
     use_rag : {None, <<"t","r","u","e">>, <<"T","r","u","e">>, <<"f","a","l","s","e">>},
     models : {None, <<>>, <<" ","o","3"," ",",">> \o Gpt4o}]

WebtextRequests ==
    [endpoint : {"add_webtext"}, method : {"GET", "POST"}, json : BOOLEAN,
     textContent : {None, <<>>, <<"page text">>}, currentUrl : {None, UrlP1}]

\* the requests of the advanced endpoint
AdvRequests ==
    [endpoint : {"adv_response"},
     question : {QueryRateHike},
     use_rag : {None, <<"T","r","u","e">>},
     models : {None, <<" ","o","3"," ",",">> \o Gpt4o}]

\* what one call of create_advanced_response scraped and found relevant
AdvContexts == {<<>>, <<data_scrape(UrlP1, Response(StatusOK, PageRates))>>}

\* what a backend hands back: no or one article, no or one rate, a text
BackendResults == {<<>>, <<"r1">>}

(***************************************************************************)
(* news_and_fx.py: fetch_fx_exchange_rates.  A pair is a string, a rate is *)
(* a whole number of hundred-thousandths.  The outcome of the HTTP request *)
(* for a pair is an input:                                                 *)
(*   [kind |-> "json", body]   a 2xx response whose body is a JSON object  *)
(*   [kind |-> "http_error"]   raise_for_status raises HTTPError           *)
(*   [kind |-> "timeout"], [kind |-> "connection_error"]                   *)
(*   [kind |-> "not_json"]     response.json() raises: a ValueError, which *)
(*                             newer versions of requests also make a      *)
(*                             RequestException                            *)
(*   [kind |-> "json_array"]   the body is JSON but not an object          *)
(***************************************************************************)
PairEurUsd == <<"E","U","R","/","U","S","D">>
PairUsdJpy == <<"U","S","D","/","J","P","Y">>
PairNoSlash == <<"E","U","R","U","S","D">>
PairTwoSlashes == <<"A","/","B","/","C">>
DefaultPairs == << PairEurUsd, <<"U","S","D","/","M","X","N">>, <<"U","S","D","/","C","N","H">>,
                   <<"U","S","D","/","I","N","R">>, <<"U","S","D","/","T","H","B">> >>

\* p.split('/')
SplitSlash(p) ==
    LET slashes == {i \in 1..Len(p) : p[i] = "/"}
        n == Cardinality(slashes)
    IN [k \in 1..(n + 1) |->
           SubSeq(p, IF k = 1 THEN 1 ELSE NthOf(slashes, k - 1) + 1,
                     IF k = n + 1 THEN Len(p) ELSE NthOf(slashes, k) - 1)]

\* line 125: the unpacking into from_currency, to_currency succeeds
Unpacks(p) == Len(SplitSlash(p)) = 2

\* the decimal digits of a natural number
RECURSIVE Digits(_)
Digits(n) ==
    IF n < 10 THEN <<SubSeq(<<"0","1","2","3","4","5","6","7","8","9">>, n + 1, n + 1)[1]>>
    ELSE Digits(n \div 10) \o Digits(n % 10)

\* f"{result_rate:.4f}" of a rate given in hundred-thousandths
FormatRate(n) ==
    LET rounded == (n + 5) \div 10
        frac == rounded % 10000
    IN Digits(rounded \div 10000) \o <<".">>
       \o Digits(frac \div 1000) \o Digits((frac \div 100) % 10)
       \o Digits((frac \div 10) % 10) \o Digits(frac % 10)

JsonRate(n) == [kind |-> "json", success |-> TRUE, result |-> <<"number", n>>, error |-> None]
JsonText(t) == [kind |-> "json", success |-> TRUE, result |-> <<"string", t>>, error |-> None]
JsonError(info) == [kind |-> "json", success |-> FALSE, result |-> None, error |-> info]
FxOutcomes ==
    { JsonRate(108000), JsonRate(15050007), JsonText(<<"1",".","0","8">>),
      JsonError(<<"I","n","v","a","l","i","d">>), JsonError(None),
      [kind |-> "http_error"], [kind |-> "timeout"], [kind |-> "connection_error"],
      [kind |-> "not_json"], [kind |-> "json_array"] }

\* lines 128-160: the text stored for a pair whose request had this outcome;
\* old_requests says that response.json() raises a plain ValueError
RateText(outcome, old_requests) ==
    CASE outcome.kind = "timeout" -> <<"N/A (request timed out)">>
      [] outcome.kind \in {"http_error", "connection_error"} -> <<"N/A (request failed)">>
      [] outcome.kind = "not_json" ->
            (IF old_requests THEN <<"N/A (invalid pair)">> ELSE <<"N/A (request failed)">>)
      [] outcome.kind = "json_array" -> <<"N/A (unexpected error)">>
      [] outcome.kind = "json" ->
            IF outcome.success /\ outcome.result # None
            THEN (IF outcome.result[1] = "number"
                  THEN FormatRate(outcome.result[2])
                  ELSE <<"N/A (unexpected result type)">>)
            ELSE <<"N/A (API error: ">>
                 \o (IF outcome.error = None THEN <<"Unknown API error">> ELSE outcome.error)
                 \o <<")">>

\* faulty variant of FxAdvance: a pair that fails ends the loop
FxAdvanceOrStop(i, text) ==
    IF text[1] \in {"N/A (request failed)", "N/A (invalid pair)", "N/A (request timed out)"}
    THEN Len(fx_pairs) + 1
    ELSE i + 1

\* line 122: for p in pairs
FxAdvance(i, text) == i + 1

\* lines 115-120
FxBegin(pairs) ==
    /\ fx_pc = "idle"
    /\ fx_pairs' = IF pairs = None THEN DefaultPairs ELSE pairs
    /\ fx_i' = 1
    /\ fx_rates' = <<>>
    /\ fx_log' = <<>>
    /\ fx_pc' = "loop"
    /\ UNCHANGED <<lateVars, viewVars, rdVars, nwVars, kw_pc, kw_tokens, kw_query, kw_text, kw_result,
                   ds_pc, ds_url, ds_outcome, ds_info, globalVars, runVars, upVars>>

\* lines 122-160: one pass of the loop; the request is made only when the
\* pair unpacks
FxPair(outcome, old_requests) ==
    /\ fx_pc = "loop"
    /\ fx_i <= Len(fx_pairs)
    /\ LET p == fx_pairs[fx_i]
           text == IF Unpacks(p) THEN RateText(outcome, old_requests)
                   ELSE <<"N/A (invalid pair)">>
       IN /\ fx_rates' = [q \in DOMAIN fx_rates \cup {p} |-> IF q = p THEN text ELSE fx_rates[q]]
          /\ fx_log' = Append(fx_log, [pair |-> p, requested |-> Unpacks(p),
                                       outcome |-> outcome])
          /\ fx_i' = FxAdvance(fx_i, text)
    /\ UNCHANGED <<lateVars, fx_pc, fx_pairs, viewVars, rdVars, nwVars, kw_pc, kw_tokens, kw_query, kw_text,
                   kw_result, ds_pc, ds_url, ds_outcome, ds_info, globalVars, runVars, upVars>>

\* lines 162-163
FxReturn ==
    /\ fx_pc = "loop"
    /\ fx_i > Len(fx_pairs)
    /\ fx_pc' = "returned"
    /\ UNCHANGED <<lateVars, fx_pairs, fx_i, fx_rates, fx_log, viewVars, rdVars, nwVars, kw_pc, kw_tokens,
                   kw_query, kw_text, kw_result, ds_pc, ds_url, ds_outcome, ds_info,
                   globalVars, runVars, upVars>>

\* the lists of pairs a caller passes
PairStrings == {PairEurUsd, PairUsdJpy, PairNoSlash, PairTwoSlashes}

(***************************************************************************)
(* news_and_fx.py: fetch_financial_news.  The response of NewsAPI is an    *)
(* input:                                                                  *)
(*   [kind |-> "json", has_articles, articles]  a 2xx response whose body  *)
(*                             is a JSON object, with or without the key   *)
(*                             'articles'                                  *)
(*   [kind |-> "http_error"], [kind |-> "timeout"],                        *)
(*   [kind |-> "connection_error"], [kind |-> "not_json"]                  *)
(* An article is an object; each of its keys may be missing (None), and    *)
(* its source, when present, is an object.                                 *)
(***************************************************************************)
NoSource == [present |-> FALSE, name |-> None]
SourceNamed(name) == [present |-> TRUE, name |-> name]
Article(title, description, source) ==
    [title |-> title, description |-> description, source |-> source,
     publishedAt |-> <<"2023-01-01T12:00:00Z">>, url |-> <<"http://example.com/">> \o title]
ArticlesOfApi ==
    { Article(<<"Test News 1">>, <<"Desc 1">>, SourceNamed(<<"Source1">>)),
      Article(<<"Test News 2">>, <<"Desc 2">>, NoSource),
      Article(<<"Test News 3">>, <<>>, SourceNamed(<<"Source3">>)),
      Article(<<"Test News 4">>, None, SourceNamed(<<"Source4">>)) }
NewsBody(articles) == [kind |-> "json", has_articles |-> TRUE, articles |-> articles]
NewsOutcomes ==
    {NewsBody(articles) : articles \in SeqsUpTo(ArticlesOfApi, MaxArticles)}
    \cup { [kind |-> "json", has_articles |-> FALSE, articles |-> <<>>],
           [kind |-> "http_error"], [kind |-> "timeout"], [kind |-> "connection_error"],
           [kind |-> "not_json"] }
DefaultNewsQuery == <<"forex OR foreign exchange OR currency OR stock market OR economy">>
DefaultPageSize == 30
NewsTimeout == 10

\* line 43: not NEWSAPI_KEY
KeyMissing(key) == key \in {None, <<>>}

\* faulty variant of HasDescription: the key only has to be present
HasDescriptionKey(article) == article.description # None

\* line 79: article.get("description") is truthy
HasDescription(article) == article.description \notin {None, <<>>}

\* lines 72-78
ProcessedArticle(article) ==
    [title |-> article.title, description |-> article.description,
     source |-> IF article.source.present THEN article.source.name ELSE None,
     published_at |-> article.publishedAt, url |-> article.url]

\* lines 68-80
ProcessedArticles(body) ==
    LET articles_data == IF body.has_articles THEN body.articles ELSE <<>>
        kept == SelectSeq(articles_data, HasDescription)
    IN [k \in 1..Len(kept) |-> ProcessedArticle(kept[k])]

\* lines 43-65: without a key the call returns at once, with one it sends
\* the request
NewsBegin(query, page_size) ==
    /\ nw_pc = "idle"
    /\ IF KeyMissing(NEWSAPI_KEY)
       THEN /\ nw_pc' = "returned"
            /\ nw_result' = <<>>
            /\ UNCHANGED nw_requests
       ELSE /\ nw_pc' = "requesting"
            /\ nw_requests' = Append(nw_requests,
                   [q |-> query, pageSize |-> page_size, apiKey |-> NEWSAPI_KEY,
                    timeout |-> NewsTimeout])
            /\ UNCHANGED nw_result
    /\ UNCHANGED <<lateVars, NEWSAPI_KEY, nw_outcome, viewVars, rdVars, fxVars, kw_pc, kw_tokens,
                   kw_query, kw_text, kw_result, ds_pc, ds_url, ds_outcome, ds_info,
                   globalVars, runVars, upVars>>

\* lines 66-95: the response arrives, or the request fails
NewsRespond(outcome) ==
    /\ nw_pc = "requesting"
    /\ nw_outcome' = outcome
    /\ nw_result' = IF outcome.kind = "json" THEN ProcessedArticles(outcome) ELSE <<>>
    /\ nw_pc' = "returned"
    /\ UNCHANGED <<lateVars, NEWSAPI_KEY, nw_requests, viewVars, rdVars, fxVars, kw_pc, kw_tokens,
                   kw_query, kw_text, kw_result, ds_pc, ds_url, ds_outcome, ds_info,
                   globalVars, runVars, upVars>>

\* the values of NEWSAPI_KEY in the environment, and the arguments of a call
NewsKeys == {None, <<>>, <<"test_key">>}
NewsQueries == {DefaultNewsQuery, <<"test query">>}
NewsPageSizes == {DefaultPageSize, 2}

(***************************************************************************)
(* charting.py: generate_simple_line_chart.  The data argument is a Python *)
(* value: a list of elements, or something that is no list.  An element    *)
(* carries its Python type.  Whether matplotlib draws and saves the figure *)
(* is an input: "saved", or an exception raised before the file was        *)
(* opened ("raised") or while it was written ("raised_partial").           *)
(***************************************************************************)
Element(type, repr) == [type |-> type, repr |-> repr]
ListOf(items) == [type |-> "list", items |-> items]
NotAList(type, items) == [type |-> type, items |-> items]
ChartElements ==
    { Element("int", <<"42">>), Element("float", <<"10.5">>), Element("bool", <<"True">>),
      Element("str", <<"a">>), Element("NoneType", <<"None">>) }
ChartData ==
    {ListOf(items) : items \in SeqsUpTo(ChartElements, MaxPoints)}
    \cup { NotAList("str", <<Element("str", <<"this is not a list">>)>>),
           NotAList("tuple", <<Element("int", <<"42">>)>>),
           NotAList("NoneType", <<>>) }
ChartPrefixes == {<<"chart">>, <<"test_chart_success">>}
SaveOutcomes == {"saved", "raised", "raised_partial"}

\* line 65: isinstance(x, (int, float)); bool is a subclass of int
IsNumber(x) == x.type \in {"int", "float", "bool"}

\* faulty variant of Plottable: the empty list is let through
PlottableOrEmpty(data) ==
    /\ data.type = "list"
    /\ \A k \in 1..Len(data.items) : IsNumber(data.items[k])

\* lines 62-70: the three checks before the figure is made
Plottable(data) ==
    /\ data.type = "list"
    /\ \A k \in 1..Len(data.items) : IsNumber(data.items[k])
    /\ data.items # <<>>

\* lines 89-90: the file name, from the prefix and the clock
ChartFilename(filename_prefix, timestamp) ==
    filename_prefix \o <<"_">> \o Digits(timestamp) \o <<".png">>

\* line 111
WebPath(filename) == <<"/static/charts/">> \o filename

\* lines 37-122: one call; the clock has advanced since the call before
GenerateSimpleLineChart(data, filename_prefix, outcome) ==
    /\ ch_clock < MaxCharts
    /\ ch_clock' = ch_clock + 1
    /\ ch_call' = [made |-> TRUE, data |-> data, filename_prefix |-> filename_prefix,
                   outcome |-> outcome]
    /\ ch_before' = ch_files
    /\ LET filename == ChartFilename(filename_prefix, ch_clock')
       IN IF ~Plottable(data)
          THEN ch_result' = None /\ UNCHANGED ch_files
          ELSE CASE outcome = "saved" ->
                      ch_files' = ch_files \cup {filename} /\ ch_result' = WebPath(filename)
                 [] outcome = "raised_partial" ->
                      ch_files' = ch_files \cup {filename} /\ ch_result' = None
                 [] outcome = "raised" ->
                      ch_result' = None /\ UNCHANGED ch_files
    /\ UNCHANGED <<rpVars, advVars, viewVars, rdVars, fxVars, nwVars, kw_pc, kw_tokens, kw_query, kw_text,
                   kw_result, ds_pc, ds_url, ds_outcome, ds_info, globalVars, runVars, upVars>>

(***************************************************************************)
(* report_generator.py: generate_hourly_financial_report.  The environment *)
(* says which API keys are set and whether the news service is the mock.   *)
(* tools_list is a local of the function: unbound until its assignment at  *)
(* line 224.  The agent returns a mapping with or without 'output', or     *)
(* raises with a message.                                                  *)
(***************************************************************************)
CriticalError == <<"CRITICAL ERROR: OPENAI_API_KEY is not found. LLM agent cannot operate.">>
NoOutput == <<"Error: No output received from financial report agent.">>
KeyError == <<"Error generating report: Critical issue with OpenAI API Key (missing or invalid).">>
AgentError == <<"Error: Financial report generation failed due to an agent execution error: ">>

AgentOutput(text) == [kind |-> "output", has_output |-> TRUE, text |-> text]
AgentRaises(message) == [kind |-> "raises", has_output |-> FALSE, text |-> message]
AgentOutcomes ==
    { AgentOutput(<<"Hourly report">>), AgentOutput(<<>>),
      [kind |-> "output", has_output |-> FALSE, text |-> <<>>],
      AgentRaises(<<"I","n","v","a","l","i","d"," ","A","P","I","_","K","e","y">>),
      AgentRaises(<<"A","u","t","h","e","n","t","i","c","a","t","i","o","n","E","r","r","o","r">>),
      AgentRaises(<<"n","o"," ","O","P","E","N","A","I","_","A","P","I","_","K","E","Y">>),
      AgentRaises(<<"t","i","m","e","d"," ","o","u","t">>), AgentRaises(<<"r","a","t","e"," ","l","i","m","i","t">>),
      AgentOutput(<<"Hourly report", " with /static/charts/chart_1.png">>) }

\* line 186
CanAttemptWandbInit(env) ==
    env.WANDB_API_KEY /\ env.OPENAI_API_KEY /\ (env.NEWSAPI_KEY \/ env.mock_news)

\* line 295: the message names the OpenAI key
NamesApiKey(message) ==
    \/ IsSubstring(<<"O","P","E","N","A","I","_","A","P","I","_","K","E","Y">>, message)
    \/ IsSubstring(<<"a","p","i","_","k","e","y">>, Lower(message))
    \/ IsSubstring(<<"A","u","t","h","e","n","t","i","c","a","t","i","o","n","E","r","r","o","r">>, message)

\* lines 216-219 and 301-312: log and finish, when a run was started
FinishRun(run, events) ==
    IF run = None THEN events ELSE events \o <<"wandb_run.log", "wandb_run.finish">>

\* lines 170-209: the keys are read and W&B is initialised when it can be.
\* The arguments of wandb.init are evaluated first: the config at line 196
\* reads tools_list, and a read of the unbound local raises inside the try
\* of line 189, whose handler leaves wandb_run None.
ReportBegin(init_ok) ==
    /\ rp_pc = "idle"
    /\ rp_pc' = "precheck"
    /\ IF CanAttemptWandbInit(rp_env) /\ rp_tools_list = "bound"
       THEN /\ rp_events' = Append(rp_events, "wandb.init")
            /\ rp_wandb_run' = IF init_ok THEN <<"run">> ELSE None
       ELSE UNCHANGED <<rp_events, rp_wandb_run>>
    /\ UNCHANGED <<rp_env, rp_tools_list, rp_result, chVars, advVars, viewVars, rdVars, fxVars, nwVars,
                   kw_pc, kw_tokens, kw_query, kw_text, kw_result, ds_pc, ds_url, ds_outcome,
                   ds_info, globalVars, runVars, upVars>>

\* lines 212-220: without the OpenAI key the call ends here
ReportCritical ==
    /\ rp_pc = "precheck"
    /\ ~rp_env.OPENAI_API_KEY
    /\ rp_events' = FinishRun(rp_wandb_run, rp_events)
    /\ rp_result' = CriticalError
    /\ rp_pc' = "returned"
    /\ UNCHANGED <<rp_env, rp_tools_list, rp_wandb_run, chVars, advVars, viewVars, rdVars, fxVars,
                   nwVars, kw_pc, kw_tokens, kw_query, kw_text, kw_result, ds_pc, ds_url,
                   ds_outcome, ds_info, globalVars, runVars, upVars>>

\* lines 223-264: the agent is set up; tools_list is assigned
ReportSetup ==
    /\ rp_pc = "precheck"
    /\ rp_env.OPENAI_API_KEY
    /\ rp_tools_list' = "bound"
    /\ rp_pc' = "agent"
    /\ UNCHANGED <<rp_env, rp_wandb_run, rp_events, rp_result, chVars, advVars, viewVars, rdVars,
                   fxVars, nwVars, kw_pc, kw_tokens, kw_query, kw_text, kw_result, ds_pc,
                   ds_url, ds_outcome, ds_info, globalVars, runVars, upVars>>

\* lines 266-312: the agent is invoked; the finally clause closes the run
ReportAgent(outcome) ==
    /\ rp_pc = "agent"
    /\ rp_events' = FinishRun(rp_wandb_run, Append(rp_events, "agent_executor.invoke"))
    /\ rp_result' =
          IF outcome.kind = "output"
          THEN (IF outcome.has_output THEN outcome.text ELSE NoOutput)
          ELSE (IF NamesApiKey(outcome.text) THEN KeyError
                ELSE AgentError \o outcome.text)
    /\ rp_pc' = "returned"
    /\ UNCHANGED <<rp_env, rp_tools_list, rp_wandb_run, chVars, advVars, viewVars, rdVars, fxVars,
                   nwVars, kw_pc, kw_tokens, kw_query, kw_text, kw_result, ds_pc, ds_url,
                   ds_outcome, ds_info, globalVars, runVars, upVars>>

ReportEnvironments ==
    [WANDB_API_KEY : BOOLEAN, OPENAI_API_KEY : BOOLEAN, NEWSAPI_KEY : BOOLEAN,
     mock_news : BOOLEAN]

(***************************************************************************)
(* create_advanced_response, one run r of it.                              *)
(*   pc[r]: idle, preferred (search_preferred_urls is scraping), search,   *)
(*   fallback (the fallback loop is scraping), compose, complete (the      *)
(*   completion request), done, search_raised, completion_raised.          *)
(*   scraped[r] is the history of the run's data_scrape calls: the URL,    *)
(*   the phase and position in the phase's list, the status of the result, *)
(*   whether its content matches the query, whether the code kept it, and  *)
(*   the result itself when kept.                                          *)
(***************************************************************************)
Runs == {1, 2}
SearchLimit == 5

\* no get_sources response yet
NoSources == [status |-> "none", sources |-> <<>>]

InFlight(r) == pc[r] \in {"preferred", "search", "fallback", "compose", "complete"}

Min(a, b) == IF a <= b THEN a ELSE b

\* what the search collaborator may hand back: at most `stop` distinct URLs
SearchResults == DistinctSeqsUpTo({UrlS1, UrlS2}, Min(MaxSearch, SearchLimit))

ScrapeRecord(phase, pos, query, info, kept) ==
    [url |-> info.url, phase |-> phase, pos |-> pos, status |-> info.status,
     matches |-> keyword_match(query, Get(info, "content", <<>>)),
     kept |-> kept,
     info |-> IF kept THEN info ELSE ErrorInfo(info.url, <<>>)]

\* faulty variant of ClearUsed: the set is not cleared at the start of a run
ClearUsedForgotten(urls) == urls

\* line 245: used_urls.clear()
ClearUsed(urls) == {}

\* faulty variant of Advance: a failed extraction breaks out of the loop
AdvanceOrBreak(i, urls, info) == IF info.status = "error" THEN Len(urls) + 1 ELSE i + 1

\* lines 145 and 272: the for loop moves on to the next URL whatever the result
Advance(i, urls, info) == i + 1

\* faulty variant of AfterPreferred: the fallback search runs after every preferred phase
AfterPreferredAlwaysSearch(used) == "search"

\* lines 269-271: the fallback phase is entered only without a relevant preferred result
AfterPreferred(used) == IF used = <<>> THEN "search" ELSE "compose"

\* faulty variant of AddContext: the newest context message is put first
AddContextFirst(context, info) == <<ContextMessage(info)>> \o context

\* lines 266 and 286: context_messages.append
AddContext(context, info) == Append(context, ContextMessage(info))

\* faulty variant of ComposeMessages: the query message is appended before the context
ComposeMessagesQueryFirst(messages, context, query) ==
    Append(messages, FinalMessage(query)) \o context

\* lines 291-298: the context messages, then the final query message
ComposeMessages(messages, context, query) ==
    Append(messages \o context, FinalMessage(query))

\* lines 241-251 up to the read of the curated list (search_preferred_urls, line 143)
Start(r, query, messages) ==
    /\ pc[r] \notin {"preferred", "search", "fallback", "compose", "complete"}
    /\ used_urls' = ClearUsed(used_urls)
    /\ pc' = [pc EXCEPT ![r] = "preferred"]
    /\ user_input' = [user_input EXCEPT ![r] = query]
    /\ caller_list' = [caller_list EXCEPT ![r] = messages]
    /\ message_list' = [message_list EXCEPT ![r] = messages]
    /\ preferred_urls' = [preferred_urls EXCEPT ![r] = get_preferred_urls(preferred_file)]
    /\ next_url' = [next_url EXCEPT ![r] = 1]
    /\ preferred_info_list' = [preferred_info_list EXCEPT ![r] = <<>>]
    /\ context_messages' = [context_messages EXCEPT ![r] = <<>>]
    /\ search_urls' = [search_urls EXCEPT ![r] = <<>>]
    /\ search_raises' = [search_raises EXCEPT ![r] = FALSE]
    /\ search_calls' = [search_calls EXCEPT ![r] = 0]
    /\ scraped' = [scraped EXCEPT ![r] = <<>>]
    /\ sources_query' = None
    /\ sources_result' = NoSources
    /\ UNCHANGED <<preferred_file, kwVars, upVars>>

\* search_preferred_urls, lines 145-151: one iteration of the loop
ScrapePreferred(r, outcome) ==
    /\ pc[r] = "preferred"
    /\ next_url[r] <= Len(preferred_urls[r])
    /\ LET url == preferred_urls[r][next_url[r]]
           info == data_scrape(url, outcome)
           kept == Relevant(user_input[r], info)
       IN /\ outcome \in FetchOutcomes(url)
          /\ preferred_info_list' =
                [preferred_info_list EXCEPT ![r] = IF kept THEN Append(@, info) ELSE @]
          /\ scraped' = [scraped EXCEPT ![r] =
                Append(@, ScrapeRecord("preferred", next_url[r], user_input[r], info, kept))]
          /\ next_url' = [next_url EXCEPT ![r] = Advance(@, preferred_urls[r], info)]
    /\ UNCHANGED <<pc, user_input, caller_list, message_list, preferred_urls,
                   context_messages, search_urls, search_raises, search_calls,
                   globalVars, kwVars, upVars>>

\* lines 252-266: every preferred result that is a relevant success is added to
\* used_urls and becomes a context message, in list order
RECURSIVE PreferredContext(_, _)
PreferredContext(infos, context) ==
    IF infos = <<>> THEN context
    ELSE PreferredContext(Tail(infos), AddContext(context, Head(infos)))

\* lines 252-271
GatherPreferred(r) ==
    /\ pc[r] = "preferred"
    /\ next_url[r] > Len(preferred_urls[r])
    /\ LET used == SelectSeq(preferred_info_list[r], LAMBDA info : Relevant(user_input[r], info))
       IN /\ used_urls' = used_urls \cup {used[i].url : i \in 1..Len(used)}
          /\ context_messages' =
                [context_messages EXCEPT ![r] = PreferredContext(used, <<>>)]
          /\ pc' = [pc EXCEPT ![r] = AfterPreferred(used)]
    /\ next_url' = [next_url EXCEPT ![r] = 1]
    /\ UNCHANGED <<user_input, caller_list, message_list, preferred_urls,
                   preferred_info_list, search_urls, search_raises, search_calls,
                   scraped, preferred_file, sources_query, sources_result,
                   kwVars, upVars>>

\* line 272: search(user_input, num=5, stop=5, pause=0).  The generator yields
\* `urls` and then either ends or raises (raises = TRUE).
Search(r, urls, raises) ==
    /\ pc[r] = "search"
    /\ pc' = [pc EXCEPT ![r] = "fallback"]
    /\ search_calls' = [search_calls EXCEPT ![r] = @ + 1]
    /\ search_urls' = [search_urls EXCEPT ![r] = urls]
    /\ search_raises' = [search_raises EXCEPT ![r] = raises]
    /\ UNCHANGED <<user_input, caller_list, message_list, preferred_urls, next_url,
                   preferred_info_list, context_messages, scraped,
                   globalVars, kwVars, upVars>>

\* lines 273-288: one iteration of the fallback loop
ScrapeFallback(r, outcome) ==
    /\ pc[r] = "fallback"
    /\ next_url[r] <= Len(search_urls[r])
    /\ LET url == search_urls[r][next_url[r]]
           info == data_scrape(url, outcome)
           kept == Relevant(user_input[r], info)
       IN /\ outcome \in FetchOutcomes(url)
          /\ used_urls' = IF kept THEN used_urls \cup {info.url} ELSE used_urls
          /\ context_messages' =
                [context_messages EXCEPT ![r] = IF kept THEN AddContext(@, info) ELSE @]
          /\ scraped' = [scraped EXCEPT ![r] =
                Append(@, ScrapeRecord("fallback", next_url[r], user_input[r], info, kept))]
          /\ next_url' = [next_url EXCEPT ![r] = Advance(@, search_urls[r], info)]
    /\ UNCHANGED <<pc, user_input, caller_list, message_list, preferred_urls,
                   preferred_info_list, search_urls, search_raises, search_calls,
                   preferred_file, sources_query, sources_result, kwVars, upVars>>

\* line 272: the generator is exhausted, or raises out of create_advanced_response
EndFallback(r) ==
    /\ pc[r] = "fallback"
    /\ next_url[r] > Len(search_urls[r])
    /\ pc' = [pc EXCEPT ![r] = IF search_raises[r] THEN "search_raised" ELSE "compose"]
    /\ UNCHANGED <<user_input, caller_list, message_list, preferred_urls, next_url,
                   preferred_info_list, context_messages, search_urls, search_raises,
                   search_calls, scraped, globalVars, kwVars, upVars>>

\* lines 291-298: the retrieval composer
Compose(r) ==
    /\ pc[r] = "compose"
    /\ message_list' =
          [message_list EXCEPT ![r] = ComposeMessages(@, context_messages[r], user_input[r])]
    /\ pc' = [pc EXCEPT ![r] = "complete"]
    /\ UNCHANGED <<user_input, caller_list, preferred_urls, next_url,
                   preferred_info_list, context_messages, search_urls, search_raises,
                   search_calls, scraped, globalVars, kwVars, upVars>>

\* lines 301-307: the completion request returns an answer or raises
Complete(r, ok) ==
    /\ pc[r] = "complete"
    /\ pc' = [pc EXCEPT ![r] = IF ok THEN "done" ELSE "completion_raised"]
    /\ UNCHANGED <<user_input, caller_list, message_list, preferred_urls, next_url,
                   preferred_info_list, context_messages, search_urls, search_raises,
                   search_calls, scraped, globalVars, kwVars, upVars>>

(***************************************************************************)
(* get_sources and get_website_icon.                                       *)
(***************************************************************************)
\* get_website_icon, lines 324-331: the favicon URL of the page, None when the
\* page names none
get_website_icon(url) ==
    IF url \in {UrlP1, UrlS1} THEN <<"favicon of", url>> ELSE None

\* the orders in which a set can be iterated
Orderings(S) ==
    {f \in [1..Cardinality(S) -> S] : \A i, j \in 1..Cardinality(S) : i # j => f[i] # f[j]}

\* lines 315-317: one (url, icon) pair per element of used_urls; an icon
\* request that raises makes get_sources raise (raises = TRUE)
get_sources(query, order, raises) ==
    /\ order \in Orderings(used_urls)
    /\ raises => used_urls # {}
    /\ sources_query' = query
    /\ sources_result' =
          IF raises THEN [status |-> "raised", sources |-> <<>>]
          ELSE [status |-> "returned",
                sources |-> [i \in 1..Len(order) |-> <<order[i], get_website_icon(order[i])>>]]
    /\ UNCHANGED <<used_urls, preferred_file, runVars, kwVars, upVars>>

(***************************************************************************)
(* create_embeddings.py: upload_folder and the two persisted artifacts.    *)
(*   embeddings_pkl  the Chunk Store (embeddings.pkl)                      *)
(*   faiss_idx       the Vector Index (faiss_index.idx)                    *)
(* A file item is [name, content]; a key that is missing reads as None,    *)
(* as file_item.get does.                                                  *)
(***************************************************************************)
EmbeddingDim == 384

NoStore == [exists |-> FALSE, chunks |-> <<>>]
NoIndex == [exists |-> FALSE, d |-> 0, ntotal |-> 0]

FileItem(name, content) == [name |-> name, content |-> content]

FileItems ==
    { FileItem(<<"a.txt">>, <<"alpha">>), FileItem(<<"b.txt">>, <<"beta">>),
      FileItem(<<"a.txt">>, None), FileItem(<<>>, <<"beta">>) }

\* the request body: a mapping whose filePaths key may be missing
UploadData ==
    {[has_file_paths |-> FALSE, filePaths |-> <<>>]}
    \cup {[has_file_paths |-> TRUE, filePaths |-> f] : f \in SeqsUpTo(FileItems, MaxDocs)}

\* faulty variant of ValidItem: a name or a content is enough
ValidItemEither(file_item) == Truthy(file_item.name) \/ Truthy(file_item.content)

\* line 100: `if file_name and file_content`
ValidItem(file_item) == Truthy(file_item.name) /\ Truthy(file_item.content)

\* embed_file_content: the model's vector for a text
embed_file_content(file_content) == [dim |-> EmbeddingDim, of |-> file_content]

\* lines 103-110
ChunkDict(file_item) ==
    [text |-> file_item.content,
     metadata |-> [file_path |-> file_item.name],
     embedding |-> embed_file_content(file_item.content)]

\* lines 93-112: one chunk per item that has a name and a content
ChunksOf(data) ==
    LET files == IF data.has_file_paths THEN data.filePaths ELSE <<>>
        valid == SelectSeq(files, ValidItem)
    IN [i \in 1..Len(valid) |-> ChunkDict(valid[i])]

\* faulty variant of store_embeddings: the new chunks are added to the old file
store_embeddings_append(chunks_list) ==
    [exists |-> TRUE, chunks |-> embeddings_pkl.chunks \o chunks_list]

\* store_embeddings: pickle.dump(chunks_list) over the old file
store_embeddings(chunks_list) == [exists |-> TRUE, chunks |-> chunks_list]

\* faulty variant of create_faiss_index: the new vectors are added to the old index
create_faiss_index_incremental(chunks, old) ==
    IF chunks = <<>> THEN old
    ELSE [exists |-> TRUE,
          d |-> chunks[1].embedding.dim,
          ntotal |-> old.ntotal + Len(chunks)]

\* create_faiss_index: nothing is written for an empty list; otherwise a
\* flat L2 index of the first chunk's dimension over every embedding. The
\* index file is kept as what index.d and index.ntotal report of it.
create_faiss_index(chunks, old) ==
    IF chunks = <<>> THEN old
    ELSE [exists |-> TRUE,
          d |-> chunks[1].embedding.dim,
          ntotal |-> Len([i \in 1..Len(chunks) |-> chunks[i].embedding])]

NoResponse == [body |-> "none", status |-> 0]
NothingToEmbed == [body |-> "No valid files processed. Nothing to embed.", status |-> 200]
Success ==
    [body |-> "Files processed, local embeddings stored, and FAISS index created.",
     status |-> 200]
ServerError == [body |-> "Server error processing files", status |-> 500]

\* lines 90-116: the items are embedded; an embedding that raises, or an empty
\* chunk list, ends the call before anything is written
UploadBegin(data, embed_ok) ==
    /\ up_pc \in {"idle", "returned"}
    /\ embed_ok \/ ChunksOf(data) # <<>>
    /\ up_data' = data
    /\ up_before' = <<embeddings_pkl, faiss_idx>>
    /\ IF ~embed_ok
       THEN up_chunks' = <<>> /\ up_response' = ServerError /\ up_pc' = "returned"
       ELSE IF ChunksOf(data) = <<>>
            THEN up_chunks' = <<>> /\ up_response' = NothingToEmbed /\ up_pc' = "returned"
            ELSE up_chunks' = ChunksOf(data) /\ up_response' = NoResponse /\ up_pc' = "store"
    /\ UNCHANGED <<embeddings_pkl, faiss_idx, kwVars, globalVars, runVars>>

\* line 119: the Chunk Store is overwritten; open(..., 'wb') that fails leaves
\* the old file, a dump that fails leaves a truncated one
UploadStore(outcome) ==
    /\ up_pc = "store"
    /\ outcome \in {"ok", "open_fails", "dump_fails"}
    /\ embeddings_pkl' =
          CASE outcome = "ok" -> store_embeddings(up_chunks)
            [] outcome = "open_fails" -> embeddings_pkl
            [] outcome = "dump_fails" -> [exists |-> TRUE, chunks |-> <<>>]
    /\ IF outcome = "ok"
       THEN up_pc' = "index" /\ up_response' = up_response
       ELSE up_pc' = "returned" /\ up_response' = ServerError
    /\ UNCHANGED <<faiss_idx, up_data, up_chunks, up_before, kwVars, globalVars, runVars>>

\* lines 123-133: the Vector Index is built and written, or the build or the
\* write raises and the old index file stays
UploadIndex(ok) ==
    /\ up_pc = "index"
    /\ faiss_idx' = IF ok THEN create_faiss_index(up_chunks, faiss_idx) ELSE faiss_idx
    /\ up_response' = IF ok THEN Success ELSE ServerError
    /\ up_pc' = "returned"
    /\ UNCHANGED <<embeddings_pkl, up_data, up_chunks, up_before, kwVars, globalVars, runVars>>

\* faulty variant of UploadCrash: the Chunk Store is put back as it was
UploadCrashRollback ==
    /\ up_pc \in {"store", "index"}
    /\ up_pc' = "idle"
    /\ up_response' = NoResponse
    /\ up_chunks' = <<>>
    /\ embeddings_pkl' = up_before[1]
    /\ UNCHANGED <<faiss_idx, up_data, up_before, kwVars, globalVars, runVars>>

\* the process dies during a call: no response, whatever was written stays
UploadCrash ==
    /\ up_pc \in {"store", "index"}
    /\ up_pc' = "idle"
    /\ up_response' = NoResponse
    /\ up_chunks' = <<>>
    /\ UNCHANGED <<embeddings_pkl, faiss_idx, up_data, up_before, kwVars, globalVars, runVars>>

(***************************************************************************)
(* keyword_match and data_scrape called on their own.                      *)
(***************************************************************************)
TokInterest == <<"i","n","t","e","r","e","s","t">>
TokRate == <<"R","a","t","e">>
TokHike == <<"h","i","k","e">>
TokNews == <<"n","e","w","s">>
TokFx == <<"f","x">>
QueryTokens == {TokInterest, TokRate, TokHike, TokNews, TokFx}
QuerySeparators == { <<" ">>, <<"\t", " ">> }

TxtInterest == <<"I","N","T","E","R","E","S","T">>
TxtRates == <<"r","a","t","e","s">>
TxtFx == <<"F","X">>
TextTokens == {TxtInterest, TxtRates, TxtFx}

\* Greek: the word logos, in small letters and in capitals
TokLogos == <<"λ","ο","γ","ο","ς">>
TxtLogos == <<"Λ","Ο","Γ","Ο","Σ">>

KeywordMatch ==
    /\ kw_pc = "call"
    /\ kw_result' = keyword_match(kw_query, kw_text)
    /\ kw_pc' = "returned"
    /\ UNCHANGED <<kw_tokens, kw_query, kw_text, ds_pc, ds_url, ds_outcome, ds_info,
                   otherVars, globalVars, runVars, upVars>>

\* <title> </title><nav>Rates</nav><p> </p>
PageBlank ==
    [title |-> <<" ">>, description |-> <<>>,
     body |-> << Leaf("nav", <<"R","a","t","e","s">>), Leaf("p", <<" ">>) >>]

\* <title>Brief</title><h2>Note</h2><p>x..x (60)</p><p>tiny</p>
PageBrief ==
    [title |-> <<"B","r","i","e","f">>, description |-> None,
     body |-> << Leaf("h2", <<"N","o","t","e">>), Leaf("p", Rep("x", ParagraphMinLen + 10)),
                 Leaf("p", <<"t","i","n","y">>) >>]

\* <p>y..y (250)</p><p>tiny</p><footer>fx</footer>
PageLong ==
    [title |-> None, description |-> None,
     body |-> << Leaf("p", Rep("y", ContentMinLen + 50)), Leaf("p", <<"t","i","n","y">>),
                 Leaf("footer", <<"f","x">>) >>]

\* <section class="Entry-Body"><p>z..z (200)</p><aside>fx</aside></section><p>tiny</p>
PageEntry ==
    [title |-> None, description |-> None,
     body |-> << [tag |-> "section", class |-> <<"E","n","t","r","y","-","B","o","d","y">>,
                  text |-> <<>>,
                  children |-> << Leaf("p", Rep("z", ContentMinLen)),
                                  Leaf("aside", <<"f","x">>) >>],
                 Leaf("p", <<"t","i","n","y">>) >>]

\* <div class="main-content">menu</div><p>w..w (250)</p><p>tiny</p>
PageHollow ==
    [title |-> None, description |-> None,
     body |-> << [tag |-> "div", class |-> <<"m","a","i","n","-","c","o","n","t","e","n","t">>,
                  text |-> <<"m","e","n","u">>, children |-> <<>>],
                 Leaf("p", Rep("w", ContentMinLen + 50)),
                 Leaf("p", <<"t","i","n","y">>) >>]

ScrapeUrls == {UrlP1, UrlS1, <<>>}
ScrapePages ==
    {PageRates, PageFx, PageEmpty, PageBlank, PageBrief, PageLong, PageEntry, PageHollow}
ScrapeOutcomes ==
    {Response(code, page) : code \in {StatusOK, 201, 204, 404, 500, 503},
                            page \in ScrapePages}
    \cup {Timeout, Raises("Connection refused"), Raises("")}

DataScrape ==
    /\ ds_pc = "call"
    /\ ds_info' = data_scrape(ds_url, ds_outcome)
    /\ ds_pc' = "returned"
    /\ UNCHANGED <<ds_url, ds_outcome, kw_pc, kw_tokens, kw_query, kw_text, kw_result,
                   otherVars, globalVars, runVars, upVars>>

\* sentences as scraped pages repeat them: with and without a closing mark
SentBuyNow == <<"B","u","y"," ","n","o","w",".">>
SentSellLater == <<"S","e","l","l"," ","l","a","t","e","r",".">>
SentHold == <<"H","o","l","d","?">>
SentAnd == <<"a","n","d">>
SentenceParts == {SentBuyNow, SentSellLater, SentHold, SentAnd}
SentenceSeparators == { <<" ">>, <<"\n", " ">> }

RemoveDuplicateSentences ==
    /\ rd_pc = "call"
    /\ rd_result' = remove_duplicate_sentences(rd_text)
    /\ rd_pc' = "returned"
    /\ UNCHANGED <<lateVars, rd_parts, rd_text, viewVars, fxVars, nwVars, kw_pc, kw_tokens, kw_query, kw_text, kw_result,
                   ds_pc, ds_url, ds_outcome, ds_info, globalVars, runVars, upVars>>

(***************************************************************************)
(* views.py: adv_response, which calls create_advanced_response once per   *)
(* model of the request.                                                   *)
(***************************************************************************)
\* lines 287-289: the calls adv_response makes, one per model and each on a
\* copy of message_list as it is at that moment; contexts[k] is what the k-th
\* call scraped (datascraper.py lines 291-298 append it and the question)
RECURSIVE AdvCalls(_, _, _, _)
AdvCalls(messages, models, contexts, question) ==
    IF models = <<>> THEN <<>>
    ELSE LET local == ComposeMessages(messages, [k \in 1..Len(Head(contexts)) |->
                                                   ContextMessage(Head(contexts)[k])],
                                      question)
         IN <<[model |-> Head(models), received |-> messages, local |-> local]>>
            \o AdvCalls(AfterCall(messages, local), Tail(models), Tail(contexts), question)

\* lines 268-294.  With use_rag the view looks up create_rag_advanced_response,
\* which datascraper.py does not define, and the AttributeError ends the
\* request before any call.  Otherwise it calls create_advanced_response for
\* each model; raises is the number of the call whose completion raised, 0
\* when none did.  Each call clears used_urls and adds the URLs it used.
AdvResponse(request, contexts, result, raises) ==
    LET models == SplitCommas(Param(request, "models", Gpt4o))
        use_rag == Lower(Param(request, "use_rag", <<"f","a","l","s","e">>)) = <<"t","r","u","e">>
        made == IF raises = 0 THEN Len(models) ELSE raises
        calls == IF use_rag THEN <<>>
                 ELSE AdvCalls(vw_message_list, SubSeq(models, 1, made), contexts,
                               Param(request, "question", <<>>))
    IN /\ request.endpoint = "adv_response"
       /\ raises \in 0..Len(models)
       /\ DOMAIN contexts = 1..Len(models)
       /\ vw_request' = request
       /\ vw_calls' = NoCalls
       /\ vw_seen' = calls
       /\ vw_message_list' =
             IF calls = <<>> THEN vw_message_list
             ELSE AfterCall(calls[Len(calls)].received, calls[Len(calls)].local)
       /\ used_urls' =
             IF calls = <<>> THEN used_urls
             ELSE {contexts[Len(calls)][k].url : k \in 1..Len(contexts[Len(calls)])}
       /\ vw_response' =
             IF use_rag \/ raises # 0 THEN [status |-> 500]
             ELSE [status |-> 200,
                   resp |-> [name \in {models[k] : k \in 1..Len(models)} |-> result]]
       /\ UNCHANGED <<chVars, rpVars, vw_urls, kw_pc, kw_tokens, kw_query, kw_text, kw_result,
                      ds_pc, ds_url, ds_outcome, ds_info, rdVars, fxVars, nwVars,
                      preferred_file, sources_query, sources_result, runVars, upVars>>

(***************************************************************************)
(* Initial states and specifications.                                      *)
(***************************************************************************)
RdIdle ==
    /\ rd_pc = "idle" /\ rd_parts = <<>> /\ rd_text = <<>> /\ rd_result = <<>>

ChatIdle ==
    /\ vw_message_list = <<SystemPrompt>>
    /\ vw_request = NoRequest
    /\ vw_calls = NoCalls
    /\ vw_response = [status |-> 0]
    /\ vw_seen = <<>>

ViewIdle == vw_urls = NoUrlsResponse /\ ChatIdle

FxIdle ==
    /\ fx_pc = "idle" /\ fx_pairs = <<>> /\ fx_i = 1 /\ fx_rates = <<>> /\ fx_log = <<>>

NwIdle ==
    /\ nw_pc = "idle" /\ nw_requests = <<>> /\ nw_outcome = [kind |-> "none"]
    /\ nw_result = <<>>

ChartIdle ==
    /\ ch_files = {} /\ ch_clock = 0 /\ ch_call = [made |-> FALSE] /\ ch_before = {}
    /\ ch_result = None

ReportIdle ==
    /\ rp_pc = "idle" /\ rp_tools_list = "unbound" /\ rp_wandb_run = None
    /\ rp_events = <<>> /\ rp_result = None

NoKeys == [WANDB_API_KEY |-> FALSE, OPENAI_API_KEY |-> FALSE, NEWSAPI_KEY |-> FALSE,
           mock_news |-> FALSE]

LateIdle == ChartIdle /\ rp_env = NoKeys /\ ReportIdle

OtherIdle == RdIdle /\ ViewIdle /\ FxIdle /\ NEWSAPI_KEY = None /\ NwIdle /\ LateIdle

KwIdle ==
    /\ kw_pc = "idle" /\ kw_tokens = <<>> /\ kw_query = <<>> /\ kw_text = <<>>
    /\ kw_result = FALSE
    /\ ds_pc = "idle" /\ ds_url = <<>> /\ ds_outcome = Timeout /\ ds_info = ErrorInfo(<<>>, <<>>)
    /\ OtherIdle

RunsIdle ==
    /\ used_urls = {}
    /\ sources_query = None
    /\ sources_result = NoSources
    /\ pc = [r \in Runs |-> "idle"]
    /\ user_input = [r \in Runs |-> <<>>]
    /\ caller_list = [r \in Runs |-> <<>>]
    /\ message_list = [r \in Runs |-> <<>>]
    /\ preferred_urls = [r \in Runs |-> <<>>]
    /\ next_url = [r \in Runs |-> 1]
    /\ preferred_info_list = [r \in Runs |-> <<>>]
    /\ context_messages = [r \in Runs |-> <<>>]
    /\ search_urls = [r \in Runs |-> <<>>]
    /\ search_raises = [r \in Runs |-> FALSE]
    /\ search_calls = [r \in Runs |-> 0]
    /\ scraped = [r \in Runs |-> <<>>]

UploadIdle ==
    /\ embeddings_pkl = NoStore
    /\ faiss_idx = NoIndex
    /\ up_pc = "idle"
    /\ up_data = [has_file_paths |-> FALSE, filePaths |-> <<>>]
    /\ up_chunks = <<>>
    /\ up_response = NoResponse
    /\ up_before = <<NoStore, NoIndex>>

\* One request at a time: advanced-response runs and source queries in sequence.
Init ==
    /\ preferred_file \in PreferredFiles
    /\ RunsIdle /\ KwIdle /\ UploadIdle

Next ==
    \/ \E request \in Requests : Start(1, request[1], request[2])
    \/ \E outcome \in FetchOutcomes(UrlP1) \cup FetchOutcomes(<<>>) : ScrapePreferred(1, outcome)
    \/ GatherPreferred(1)
    \/ \E urls \in SearchResults, raises \in BOOLEAN : Search(1, urls, raises)
    \/ \E outcome \in FetchOutcomes(UrlS1) : ScrapeFallback(1, outcome)
    \/ EndFallback(1)
    \/ Compose(1)
    \/ \E ok \in BOOLEAN : Complete(1, ok)
    \/ \E query \in Queries, order \in Orderings(used_urls), raises \in BOOLEAN :
            ~InFlight(1) /\ get_sources(query, order, raises)
    \/ \E readable \in BOOLEAN : ~InFlight(1) /\ GetPreferredUrls(readable)

Spec == Init /\ [][Next]_vars

\* keyword_match on queries and texts built from tokens
InitKw ==
    /\ kw_pc = "call"
    /\ kw_tokens \in SeqsUpTo(QueryTokens, MaxQueryTokens)
    /\ \E sep \in QuerySeparators : kw_query = Join(sep, kw_tokens)
    /\ \E words \in SeqsUpTo(TextTokens, MaxTextTokens) : kw_text = Join(<<" ">>, words)
    /\ kw_result = FALSE
    /\ ds_pc = "idle" /\ ds_url = <<>> /\ ds_outcome = Timeout /\ ds_info = ErrorInfo(<<>>, <<>>)
    /\ OtherIdle
    /\ preferred_file = NoFile
    /\ RunsIdle /\ UploadIdle

NextKw == KeywordMatch

SpecKw == InitKw /\ [][NextKw]_vars

\* keyword_match on Latin and Greek queries and texts
InitGreek ==
    /\ kw_pc = "call"
    /\ kw_tokens \in SeqsUpTo({TokRate, TokFx, TokLogos}, MaxTextTokens)
    /\ \E sep \in QuerySeparators : kw_query = Join(sep, kw_tokens)
    /\ \E words \in SeqsUpTo({TxtRates, TxtFx, TxtLogos}, MaxTextTokens) :
          kw_text = Join(<<" ">>, words)
    /\ kw_result = FALSE
    /\ ds_pc = "idle" /\ ds_url = <<>> /\ ds_outcome = Timeout /\ ds_info = ErrorInfo(<<>>, <<>>)
    /\ OtherIdle
    /\ preferred_file = NoFile
    /\ RunsIdle /\ UploadIdle

NextGreek == KeywordMatch

SpecGreek == InitGreek /\ [][NextGreek]_vars

\* data_scrape on every URL and fetch outcome
InitScrape ==
    /\ ds_pc = "call"
    /\ ds_url \in ScrapeUrls
    /\ ds_outcome \in (IF ds_url = <<>> THEN FetchOutcomes(<<>>) ELSE ScrapeOutcomes)
    /\ ds_info = ErrorInfo(<<>>, <<>>)
    /\ kw_pc = "idle" /\ kw_tokens = <<>> /\ kw_query = <<>> /\ kw_text = <<>>
    /\ kw_result = FALSE
    /\ OtherIdle
    /\ preferred_file = NoFile
    /\ RunsIdle /\ UploadIdle

NextScrape == DataScrape

SpecScrape == InitScrape /\ [][NextScrape]_vars

\* remove_duplicate_sentences on texts built from sentences
InitDedupe ==
    /\ rd_pc = "call"
    /\ rd_parts \in SeqsUpTo(SentenceParts, MaxSentences)
    /\ \E sep \in SentenceSeparators : rd_text = Join(sep, rd_parts)
    /\ rd_result = <<>>
    /\ kw_pc = "idle" /\ kw_tokens = <<>> /\ kw_query = <<>> /\ kw_text = <<>>
    /\ kw_result = FALSE
    /\ ds_pc = "idle" /\ ds_url = <<>> /\ ds_outcome = Timeout /\ ds_info = ErrorInfo(<<>>, <<>>)
    /\ ViewIdle /\ FxIdle /\ NEWSAPI_KEY = None /\ NwIdle /\ LateIdle
    /\ preferred_file = NoFile
    /\ RunsIdle /\ UploadIdle

NextDedupe == RemoveDuplicateSentences

SpecDedupe == InitDedupe /\ [][NextDedupe]_vars

\* the chat endpoints of views.py, one request after the other
InitViews ==
    /\ preferred_file = NoFile
    /\ RunsIdle /\ KwIdle /\ UploadIdle

NextViews ==
    \/ \E request \in ChatRequests, result \in BackendResults, raises \in BOOLEAN :
          ChatResponse(request, result, raises)
    \/ Clear
    \/ \E request \in WebtextRequests : AddWebtext(request)
    \/ \E request \in AdvRequests, raises \in 0..2 :
          \E contexts \in [1..Len(SplitCommas(Param(request, "models", Gpt4o))) -> AdvContexts] :
             AdvResponse(request, contexts, <<"r1">>, raises)

SpecViews == InitViews /\ [][NextViews]_vars

\* fetch_fx_exchange_rates on a list of pairs
InitFx ==
    /\ preferred_file = NoFile
    /\ RunsIdle /\ KwIdle /\ UploadIdle

NextFx ==
    \/ \E pairs \in SeqsUpTo(PairStrings, MaxPairs) \cup {None} : FxBegin(pairs)
    \/ \E outcome \in FxOutcomes, old_requests \in BOOLEAN : FxPair(outcome, old_requests)
    \/ FxReturn

SpecFx == InitFx /\ [][NextFx]_vars

\* fetch_financial_news under each configuration of the key
InitNews ==
    /\ preferred_file = NoFile
    /\ RunsIdle /\ UploadIdle
    /\ kw_pc = "idle" /\ kw_tokens = <<>> /\ kw_query = <<>> /\ kw_text = <<>>
    /\ kw_result = FALSE
    /\ ds_pc = "idle" /\ ds_url = <<>> /\ ds_outcome = Timeout /\ ds_info = ErrorInfo(<<>>, <<>>)
    /\ RdIdle /\ ViewIdle /\ FxIdle /\ NwIdle /\ LateIdle
    /\ NEWSAPI_KEY \in NewsKeys

NextNews ==
    \/ \E query \in NewsQueries, page_size \in NewsPageSizes : NewsBegin(query, page_size)
    \/ \E outcome \in NewsOutcomes : NewsRespond(outcome)

SpecNews == InitNews /\ [][NextNews]_vars

\* two runs of create_advanced_response in one process, as two requests served
\* by two threads, with get_sources queries between their steps; the curated
\* list is absent, so both runs go to the web search; used_urls is empty or
\* as an earlier request left it
InitConcurrent ==
    /\ preferred_file = NoFile
    /\ used_urls \in {{}, {UrlP1}}
    /\ sources_query = None
    /\ sources_result = NoSources
    /\ pc = [r \in Runs |-> "idle"]
    /\ user_input = [r \in Runs |-> <<>>]
    /\ caller_list = [r \in Runs |-> <<>>]
    /\ message_list = [r \in Runs |-> <<>>]
    /\ preferred_urls = [r \in Runs |-> <<>>]
    /\ next_url = [r \in Runs |-> 1]
    /\ preferred_info_list = [r \in Runs |-> <<>>]
    /\ context_messages = [r \in Runs |-> <<>>]
    /\ search_urls = [r \in Runs |-> <<>>]
    /\ search_raises = [r \in Runs |-> FALSE]
    /\ search_calls = [r \in Runs |-> 0]
    /\ scraped = [r \in Runs |-> <<>>]
    /\ KwIdle /\ UploadIdle

ConcurrentOutcomes == {Response(StatusOK, PageRates), Response(StatusOK, PageFx), Timeout}

NextConcurrent ==
    \/ \E r \in Runs :
          /\ pc[r] = "idle"
          /\ Start(r, QueryRateHike, <<SystemPrompt>>)
    \/ \E r \in Runs : GatherPreferred(r)
    \/ \E r \in Runs, urls \in SearchResults : Search(r, urls, FALSE)
    \/ \E r \in Runs, outcome \in ConcurrentOutcomes : ScrapeFallback(r, outcome)
    \/ \E r \in Runs : EndFallback(r)
    \/ \E r \in Runs : Compose(r)
    \/ \E r \in Runs : Complete(r, TRUE)
    \/ \E order \in Orderings(used_urls) :
          /\ \E r \in Runs : pc[r] = "done"
          /\ sources_result = NoSources
          /\ get_sources(QueryRateHike, order, FALSE)

SpecConcurrent == InitConcurrent /\ [][NextConcurrent]_vars

\* generate_hourly_financial_report under every setting of the keys
InitReport ==
    /\ preferred_file = NoFile
    /\ RunsIdle /\ UploadIdle
    /\ kw_pc = "idle" /\ kw_tokens = <<>> /\ kw_query = <<>> /\ kw_text = <<>>
    /\ kw_result = FALSE
    /\ ds_pc = "idle" /\ ds_url = <<>> /\ ds_outcome = Timeout /\ ds_info = ErrorInfo(<<>>, <<>>)
    /\ RdIdle /\ ViewIdle /\ FxIdle /\ NEWSAPI_KEY = None /\ NwIdle /\ ChartIdle
    /\ ReportIdle
    /\ rp_env \in ReportEnvironments

NextReport ==
    \/ \E init_ok \in BOOLEAN : ReportBegin(init_ok)
    \/ ReportCritical
    \/ ReportSetup
    \/ \E outcome \in AgentOutcomes : ReportAgent(outcome)

SpecReport == InitReport /\ [][NextReport]_vars

\* generate_simple_line_chart, called a few times in a row
InitChart ==
    /\ preferred_file = NoFile
    /\ RunsIdle /\ KwIdle /\ UploadIdle

NextChart ==
    \E data \in ChartData, filename_prefix \in ChartPrefixes, outcome \in SaveOutcomes :
        GenerateSimpleLineChart(data, filename_prefix, outcome)

SpecChart == InitChart /\ [][NextChart]_vars

\* ingestion: upload_folder calls in sequence, and crashes of the process
InitUpload ==
    /\ preferred_file = NoFile
    /\ RunsIdle /\ KwIdle /\ UploadIdle

NextUpload ==
    \/ \E data \in UploadData, embed_ok \in BOOLEAN : UploadBegin(data, embed_ok)
    \/ \E outcome \in {"ok", "open_fails", "dump_fails"} : UploadStore(outcome)
    \/ \E ok \in BOOLEAN : UploadIndex(ok)
    \/ UploadCrash

SpecUpload == InitUpload /\ [][NextUpload]_vars

(***************************************************************************)
(* The properties.                                                         *)
(***************************************************************************)
Urls(records) == [i \in 1..Len(records) |-> records[i].url]

KeptRecords(r) == SelectSeq(scraped[r], LAMBDA rec : rec.kept)
PhaseRecords(r, phase) == SelectSeq(scraped[r], LAMBDA rec : rec.phase = phase)
GatheringOver(r) == pc[r] \in {"compose", "complete", "done", "completion_raised"}

\* C1: in every run the search collaborator is invoked at most once, and not
\* at all (no call, no fallback phase) once the preferred phase has produced a
\* result that is a success and relevant to the query.
C1_ShortCircuit ==
    \A r \in Runs :
        /\ search_calls[r] <= 1
        /\ (\E i \in 1..Len(scraped[r]) :
                /\ scraped[r][i].phase = "preferred"
                /\ scraped[r][i].status = "success"
                /\ scraped[r][i].matches)
           => /\ search_calls[r] = 0
              /\ pc[r] \notin {"search", "fallback", "search_raised"}
              /\ PhaseRecords(r, "fallback") = <<>>

C1_Witness ==
    /\ pc[1] = "done"
    /\ search_calls[1] = 0
    /\ \E i \in 1..Len(scraped[1]) : scraped[1][i].phase = "preferred" /\ scraped[1][i].kept
    /\ \E i \in 1..Len(scraped[1]) : scraped[1][i].phase = "preferred" /\ ~scraped[1][i].kept

\* a document that has a name and a content: both present and non-empty
HasNameAndContent(item) ==
    /\ item.name # None /\ item.name # <<>>
    /\ item.content # None /\ item.content # <<>>

Degenerate(data) ==
    \/ ~data.has_file_paths
    \/ \A i \in 1..Len(data.filePaths) : ~HasNameAndContent(data.filePaths[i])

\* C2: an upload_folder call in which no document has both a name and a
\* content (an empty or missing filePaths list included) returns the
\* nothing-to-embed result and leaves the persisted Chunk Store and Vector
\* Index as they were before the call.
C2_DegenerateIngestIsNoOp ==
    (up_pc = "returned" /\ Degenerate(up_data))
        => /\ up_response = NothingToEmbed
           /\ <<embeddings_pkl, faiss_idx>> = up_before

C2_Witness ==
    /\ up_pc = "returned"
    /\ Degenerate(up_data)
    /\ Len(up_data.filePaths) = MaxDocs
    /\ embeddings_pkl.exists /\ Len(embeddings_pkl.chunks) = 1
    /\ faiss_idx.exists /\ faiss_idx.ntotal = 2

\* C3: after an upload_folder call that returns success the persisted index
\* holds as many vectors as the persisted store holds chunks, and a batch of N
\* documents that all have a name and a content gives a store of length N and
\* an index with ntotal = N, whatever was persisted before.
C3_IndexCountEqualsStoreLength ==
    (up_pc = "returned" /\ up_response = Success)
        => /\ embeddings_pkl.exists /\ faiss_idx.exists
           /\ faiss_idx.ntotal = Len(embeddings_pkl.chunks)
           /\ faiss_idx.d = EmbeddingDim
           /\ (\A i \in 1..Len(up_data.filePaths) : HasNameAndContent(up_data.filePaths[i]))
              => /\ Len(embeddings_pkl.chunks) = Len(up_data.filePaths)
                 /\ faiss_idx.ntotal = Len(up_data.filePaths)

C3_Witness ==
    /\ up_pc = "returned" /\ up_response = Success
    /\ Len(up_data.filePaths) = 2
    /\ \A i \in 1..2 : HasNameAndContent(up_data.filePaths[i])
    /\ up_before[2].exists /\ up_before[2].ntotal = 1
    /\ faiss_idx.ntotal = 2

FallbackFailed(r) ==
    /\ search_calls[r] = 1
    /\ pc[r] # "fallback"
    /\ KeptRecords(r) = <<>>

\* C5: when the preferred phase yields no relevant result and the fallback
\* phase fails totally (the search returns no URL or itself fails, or every
\* result URL fails extraction or the relevance filter), the run does not
\* raise out of the retrieval, its context is empty, and the conversation
\* receives only the final query message.
C5_TotalFailureDoesNotRaise ==
    \A r \in Runs :
        FallbackFailed(r)
            => /\ pc[r] # "search_raised"
               /\ context_messages[r] = <<>>
               /\ pc[r] \in {"complete", "done", "completion_raised"}
                  => message_list[r] =
                        Append(caller_list[r],
                               [role |-> "user", content |-> <<Instruction, user_input[r]>>])

\* C6: in each phase every URL of the phase's list is extracted exactly once
\* and in list order, whatever the results before it, the preferred phase
\* before the fallback phase, and a URL whose extraction fails or whose
\* content is not relevant contributes no context entry.
C6_FailingUrlDoesNotAbortBatch ==
    \A r \in Runs :
        LET pref == PhaseRecords(r, "preferred")
            fall == PhaseRecords(r, "fallback")
        IN /\ scraped[r] = pref \o fall
           /\ Urls(pref) = SubSeq(preferred_urls[r], 1, Len(pref))
           /\ Urls(fall) = SubSeq(search_urls[r], 1, Len(fall))
           /\ pc[r] \notin {"idle", "preferred"} => Len(pref) = Len(preferred_urls[r])
           /\ (search_calls[r] = 1 /\ pc[r] # "fallback") => Len(fall) = Len(search_urls[r])
           /\ \A i \in 1..Len(scraped[r]) :
                scraped[r][i].kept
                    <=> (scraped[r][i].status = "success" /\ scraped[r][i].matches)
           /\ pc[r] \notin {"idle", "preferred"}
              => Len(context_messages[r]) = Len(KeptRecords(r))

C6_Witness ==
    /\ pc[1] = "done"
    /\ \E i, j \in 1..Len(scraped[1]) :
         /\ i < j
         /\ scraped[1][i].phase = "fallback" /\ scraped[1][j].phase = "fallback"
         /\ scraped[1][i].status = "error" /\ scraped[1][j].kept
    /\ \E i, j \in 1..Len(scraped[1]) :
         /\ i < j
         /\ scraped[1][i].phase = "preferred" /\ scraped[1][j].phase = "preferred"
         /\ scraped[1][i].status = "error"
         /\ scraped[1][j].status = "success" /\ ~scraped[1][j].matches

\* C7: once a run has finished gathering, used_urls is exactly the set of the
\* URLs of the results kept in that run, and a get_sources that returns then
\* yields one (url, icon or None) entry per URL of that set, whatever query
\* it is given, with used_urls as it was.
C7_SourcesOfMostRecentRun ==
    /\ (GatheringOver(1) \/ pc[1] = "search_raised")
       => used_urls = {KeptRecords(1)[i].url : i \in 1..Len(KeptRecords(1))}
    /\ sources_result.status = "returned"
       => /\ ~InFlight(1)
          /\ Len(sources_result.sources) = Cardinality(used_urls)
          /\ {sources_result.sources[i][1] : i \in 1..Len(sources_result.sources)} = used_urls
          /\ \A i \in 1..Len(sources_result.sources) :
                \/ sources_result.sources[i][2] = None
                \/ sources_result.sources[i][2] = <<"favicon of", sources_result.sources[i][1]>>
          /\ used_urls = {KeptRecords(1)[i].url : i \in 1..Len(KeptRecords(1))}

C7_Witness ==
    /\ pc[1] = "done"
    /\ sources_result.status = "returned"
    /\ sources_query # user_input[1]
    /\ Len(sources_result.sources) = 2
    /\ sources_result.sources[1][2] # sources_result.sources[2][2]

\* C8: the context entries of a run are the kept results in the order of
\* their extraction, all of one phase: in curated-list order if from the
\* preferred phase, in search-result order if from the fallback phase.
C8_ResultOrdering ==
    \A r \in Runs :
        pc[r] \notin {"idle", "preferred"}
            => LET kept == KeptRecords(r)
                   list == IF kept # <<>> /\ kept[1].phase = "preferred"
                           THEN preferred_urls[r] ELSE search_urls[r]
               IN /\ Len(context_messages[r]) = Len(kept)
                  /\ \A k \in 1..Len(kept) :
                        /\ context_messages[r][k].content[2] = kept[k].url
                        /\ kept[k].phase = kept[1].phase
                        /\ list[kept[k].pos] = kept[k].url
                        /\ k > 1 => kept[k - 1].pos < kept[k].pos

C8_Witness ==
    /\ pc[1] = "done"
    /\ Len(context_messages[1]) = 2
    /\ context_messages[1][1].content[2] = UrlS2
    /\ context_messages[1][2].content[2] = UrlS1
    /\ search_urls[1] = <<UrlS2, UrlS1>>

\* C9: a run with k kept results extends the conversation it was given by
\* exactly k + 1 entries: the k context messages in kept order, each in the
\* URL / Title / Description / Content template, then the final message that
\* holds the standing instruction followed by the literal query; the entries
\* it was given keep their position and content.
C9_ComposerOnlyAppends ==
    \A r \in Runs :
        LET kept == KeptRecords(r)
            k == Len(kept)
            n == Len(caller_list[r])
        IN /\ pc[r] \in {"preferred", "search", "fallback", "compose", "search_raised"}
              => message_list[r] = caller_list[r]
           /\ pc[r] \in {"complete", "done", "completion_raised"}
              => /\ Len(message_list[r]) = n + k + 1
                 /\ SubSeq(message_list[r], 1, n) = caller_list[r]
                 /\ \A i \in 1..k :
                       message_list[r][n + i] =
                          [role |-> "user",
                           content |->
                              << "URL: ", kept[i].info.url,
                                 "\nTitle: ",
                                 IF "title" \in DOMAIN kept[i].info.metadata
                                 THEN kept[i].info.metadata.title ELSE <<>>,
                                 "\nDescription: ",
                                 IF "description" \in DOMAIN kept[i].info.metadata
                                 THEN kept[i].info.metadata.description ELSE <<>>,
                                 "\nContent: ", kept[i].info.content >>]
                 /\ message_list[r][n + k + 1] =
                       [role |-> "user", content |-> <<Instruction, user_input[r]>>]

C9_Witness ==
    /\ pc[1] = "done"
    /\ Len(caller_list[1]) = 2
    /\ Len(KeptRecords(1)) = 2
    /\ Len(message_list[1]) = 5

\* case-insensitive occurrence of a token in a text, letter by letter
SameLetter(a, b) ==
    \/ a = b
    \/ \E i \in 1..26 : {a, b} = {UpperCase[i], LowerCase[i]}

OccursIgnoringCase(token, text) ==
    \E off \in 0..(Len(text) - Len(token)) :
        \A k \in 1..Len(token) : SameLetter(token[k], text[off + k])

C11_RelevanceFallback ==
    (kw_pc = "returned" /\ \A i \in 1..Len(kw_tokens) : Len(kw_tokens[i]) <= 3)
        => /\ kw_result <=> OccursIgnoringCase(kw_query, kw_text)
           /\ kw_query = <<>> => kw_result

\* 'fx\t fx' against 'FX FX': each token occurs, the whole query does not
C11_Witness ==
    /\ kw_pc = "returned"
    /\ kw_tokens = <<TokFx, TokFx>>
    /\ kw_query = TokFx \o <<"\t", " ">> \o TokFx
    /\ kw_text = TxtFx \o <<" ">> \o TxtFx
    /\ ~kw_result

\* the sentences of a text made of parts: a part without a closing mark runs
\* on into the next part, separator included
RECURSIVE SentencesOfParts(_, _, _)
SentencesOfParts(parts, sep, cur) ==
    IF parts = <<>> THEN (IF cur = <<>> THEN <<>> ELSE <<cur>>)
    ELSE LET piece == IF cur = <<>> THEN Head(parts) ELSE cur \o sep \o Head(parts)
         IN IF piece[Len(piece)] \in {".", "!", "?"}
            THEN <<piece>> \o SentencesOfParts(Tail(parts), sep, <<>>)
            ELSE SentencesOfParts(Tail(parts), sep, piece)

\* every element that differs from its predecessor, in order
RECURSIVE RunHeads(_, _)
RunHeads(seq, i) ==
    IF i > Len(seq) THEN <<>>
    ELSE (IF i = 1 \/ seq[i] # seq[i - 1] THEN <<seq[i]>> ELSE <<>>) \o RunHeads(seq, i + 1)

\* C12: remove_duplicate_sentences keeps one sentence of every maximal run of
\* identical consecutive sentences and every other sentence, in the original
\* order, joined by single spaces; equal sentences that are not adjacent all
\* stay: 'Buy now. Buy now. Sell later. Buy now.' becomes
\* 'Buy now. Sell later. Buy now.'.
C12_DuplicateSentenceRemoval ==
    rd_pc = "returned"
        => /\ \A sep \in SentenceSeparators :
                 rd_text = Join(sep, rd_parts)
                    => rd_result = Join(<<" ">>, RunHeads(SentencesOfParts(rd_parts, sep, <<>>), 1))
           /\ rd_parts = <<SentBuyNow, SentBuyNow, SentSellLater, SentBuyNow>>
                 => rd_result = SentBuyNow \o <<" ">> \o SentSellLater \o <<" ">> \o SentBuyNow

C12_Witness ==
    /\ rd_pc = "returned"
    /\ rd_parts = <<SentBuyNow, SentBuyNow, SentSellLater, SentBuyNow>>
    /\ rd_result = SentBuyNow \o <<" ">> \o SentSellLater \o <<" ">> \o SentBuyNow

\* the text accumulated by container selection and, when that gave nothing,
\* by the heading and paragraph pass
AccumulatedText(page) ==
    LET body == Decompose(page.body)
        containers == ContainerContent(SelectSeq(body, IsContentElement))
    IN IF containers = <<>> THEN DocumentContent(body) ELSE containers

\* the flattened text of the page once its non-content elements are removed
StrippedPageText(page) == FullPageText(page, Decompose(page.body))

\* the flattened text of everything a reader sees on the page: all of it but
\* the code in script and style elements
RECURSIVE WithoutCode(_)
WithoutCode(nodes) ==
    IF nodes = <<>> THEN <<>>
    ELSE (IF Head(nodes).tag \in {"script", "style"} THEN <<>>
          ELSE <<[Head(nodes) EXCEPT !.children = WithoutCode(Head(nodes).children)]>>)
         \o WithoutCode(Tail(nodes))

WholePageText(page) == FullPageText(page, WithoutCode(page.body))

ScrapeSucceeded == ds_pc = "returned" /\ ds_info.status = "success"

\* C13 (as amended): whenever the accumulated text is empty or shorter than
\* 200 characters, the content of a successful extraction is the flattened,
\* whitespace-normalised text of the page without its script, style, nav,
\* footer and aside elements, with consecutive duplicate sentences collapsed;
\* a page that has text outside those elements never gives an empty content.
C13_FallbackLadder ==
    ScrapeSucceeded
        => /\ Len(AccumulatedText(ds_outcome.page)) < ContentMinLen
                => ds_info.content = remove_duplicate_sentences(StrippedPageText(ds_outcome.page))
           /\ StrippedPageText(ds_outcome.page) # <<>> => ds_info.content # <<>>

\* a heading and a 60-character paragraph were accumulated, too little: the
\* content is the text of the whole page, its title and short paragraph too
C13_Witness ==
    /\ ScrapeSucceeded
    /\ ds_outcome.page = PageBrief
    /\ AccumulatedText(PageBrief) # <<>>
    /\ ds_info.content =
          <<"B","r","i","e","f"," ","N","o","t","e"," ">> \o Rep("x", 60) \o <<" ","t","i","n","y">>

\* C13 as stated: the content is then the full page's flattened text, and a
\* page with non-empty text never gives an empty content.
C13_AsStated ==
    ScrapeSucceeded
        => /\ Len(AccumulatedText(ds_outcome.page)) < ContentMinLen
                => ds_info.content = WholePageText(ds_outcome.page)
           /\ WholePageText(ds_outcome.page) # <<>> => ds_info.content # <<>>

\* C14: after an upload_folder call that returns success the persisted Chunk
\* Store holds exactly one chunk per document of the batch that has a name and
\* a content, in input order, with the document's text, its name as metadata
\* and its embedding; the other documents add nothing and no chunk of the
\* store persisted before remains.
C14_WholesaleReplacement ==
    (up_pc = "returned" /\ up_response = Success)
        => LET valid == SelectSeq(up_data.filePaths, HasNameAndContent)
           IN /\ embeddings_pkl.exists
              /\ Len(embeddings_pkl.chunks) = Len(valid)
              /\ \A i \in 1..Len(valid) :
                    /\ embeddings_pkl.chunks[i].text = valid[i].content
                    /\ embeddings_pkl.chunks[i].metadata = [file_path |-> valid[i].name]
                    /\ embeddings_pkl.chunks[i].embedding = embed_file_content(valid[i].content)

\* a store that held the chunk of a.txt holds only the chunk of b.txt after a
\* batch of b.txt and a document without content
C14_Witness ==
    /\ up_pc = "returned" /\ up_response = Success
    /\ up_before[1].exists /\ Len(up_before[1].chunks) = 1
    /\ up_before[1].chunks[1].text = <<"alpha">>
    /\ up_data.filePaths = <<FileItem(<<"a.txt">>, None), FileItem(<<"b.txt">>, <<"beta">>)>>
    /\ Len(embeddings_pkl.chunks) = 1
    /\ embeddings_pkl.chunks[1].text = <<"beta">>

\* C15: every upload_folder call that returns has either replaced both the
\* Chunk Store and the Vector Index by those of the new batch or left both as
\* they were; a call that returns the error result has changed neither.
C15_AllOrNothing ==
    up_pc = "returned"
        => LET valid == SelectSeq(up_data.filePaths, HasNameAndContent)
               replaced == /\ embeddings_pkl.exists
                           /\ Len(embeddings_pkl.chunks) = Len(valid)
                           /\ \A i \in 1..Len(valid) :
                                 embeddings_pkl.chunks[i].text = valid[i].content
               rebuilt == /\ faiss_idx.exists
                          /\ faiss_idx.ntotal = Len(valid)
           IN /\ (replaced /\ rebuilt) \/ <<embeddings_pkl, faiss_idx>> = up_before
              /\ up_response = ServerError => <<embeddings_pkl, faiss_idx>> = up_before

\* the non-blank lines of the curated file, stripped, in file order
RECURSIVE NonBlankLines(_)
NonBlankLines(lines) ==
    IF lines = <<>> THEN <<>>
    ELSE (IF \A i \in 1..Len(Head(lines)) : Head(lines)[i] \in Whitespace
          THEN <<>>
          ELSE <<SelectSeq(Head(lines), LAMBDA c : c \notin Whitespace)>>)
         \o NonBlankLines(Tail(lines))

\* C16: the list a run's preferred phase works through and the list the
\* get_preferred_urls endpoint returns are the non-blank lines of the curated
\* file, stripped, in file order, and no extraction is attempted for an empty
\* URL.
C16_BlankLinesIgnored ==
    /\ \A r \in Runs :
          pc[r] # "idle"
             => /\ preferred_urls[r] = NonBlankLines(preferred_file.lines)
                /\ \A i \in 1..Len(scraped[r]) : scraped[r][i].url # <<>>
    /\ (vw_urls.status = 200 /\ ~vw_urls.io_error)
          => vw_urls.urls = NonBlankLines(preferred_file.lines)

\* equality of two strings, letter by letter, ignoring case
EqualIgnoringCase(a, b) ==
    /\ a # None
    /\ Len(a) = Len(b)
    /\ \A k \in 1..Len(a) : SameLetter(a[k], b[k])

\* the backend a chat request is meant for
ExpectedBackend(request) ==
    IF EqualIgnoringCase(request.data_type, <<"n","e","w","s">>) THEN "fetch_financial_news"
    ELSE IF EqualIgnoringCase(request.data_type, <<"f","x">>) THEN "fetch_fx_exchange_rates"
    ELSE IF EqualIgnoringCase(request.use_rag, <<"t","r","u","e">>) THEN "create_rag_response"
    ELSE "create_response"

\* the first requested model name, gpt-4o when the request names none
FirstModel(request) ==
    CASE request.models = None -> Gpt4o
      [] request.models = <<>> -> <<>>
      [] OTHER -> <<"o","3">>

\* C17: chat_response calls exactly one backend, exactly once: the news
\* fetcher for data_type news, the FX fetcher for fx, otherwise the RAG
\* responder when use_rag is true and the general LLM responder when it is
\* not (parameter values compared without regard to case); when the backend
\* returns, the response has status 200 and a single key: NewsService,
\* FXService or the first requested model name.
C17_SingleBackendDispatch ==
    vw_request.endpoint = "chat_response"
        => LET backend == ExpectedBackend(vw_request) IN
           /\ vw_calls = [b \in Backends |-> IF b = backend THEN 1 ELSE 0]
           /\ backend \in {"fetch_financial_news", "fetch_fx_exchange_rates"}
                 => vw_response.status = 200
           /\ vw_response.status = 200
                 => DOMAIN vw_response.resp =
                       { CASE backend = "fetch_financial_news" -> NewsService
                           [] backend = "fetch_fx_exchange_rates" -> FXService
                           [] OTHER -> FirstModel(vw_request) }

\* no data_type, use_rag=false, models ' o3 ,gpt-4o': the general responder
\* answers under the key 'o3'
C17_Witness ==
    /\ vw_request.endpoint = "chat_response"
    /\ vw_request.data_type = None
    /\ vw_request.use_rag = <<"f","a","l","s","e">>
    /\ vw_calls["create_response"] = 1
    /\ vw_response.status = 200
    /\ DOMAIN vw_response.resp = {<<"o","3">>}

\* C18: whatever happened before, a clear request is answered with status
\* 200 and resp 'Message list cleared successfully' and leaves the global
\* message_list with the initial system prompt as its only entry.
C18_ClearResets ==
    vw_request.endpoint = "clear"
        => /\ vw_response.status = 200
           /\ vw_response.resp = "Message list cleared successfully"
           /\ vw_message_list = <<SystemPrompt>>


\* the last entry of the history of fetch_fx_exchange_rates for pair p
LastHandled(p) ==
    fx_log[NthOf({k \in 1..Len(fx_log) : fx_log[k].pair = p},
                 Cardinality({k \in 1..Len(fx_log) : fx_log[k].pair = p}))]

\* what the caller is told about a pair handled with this entry of the history
ExpectedRate(entry) ==
    IF ~Unpacks(entry.pair) THEN {<<"N/A (invalid pair)">>}
    ELSE CASE entry.outcome = JsonRate(108000) -> {<<"1",".","0","8","0","0">>}
           [] entry.outcome = JsonRate(15050007) -> {<<"1","5","0",".","5","0","0","1">>}
           [] entry.outcome = JsonError(<<"I","n","v","a","l","i","d">>) ->
                  {<<"N/A (API error: ", "I","n","v","a","l","i","d", ")">>}
           [] entry.outcome.kind = "http_error" -> {<<"N/A (request failed)">>}
           [] OTHER -> {fx_rates[entry.pair]}

\* C19: fetch_fx_exchange_rates always returns, and what it returns has
\* exactly one entry per distinct requested pair; a pair whose request
\* succeeded maps to its rate with four decimals, one whose request got an
\* HTTP error status to 'N/A (request failed)', one for which the API reported
\* an error to 'N/A (API error: <info>)', and a pair that does not split at
\* '/' into exactly two parts to 'N/A (invalid pair)' with no request made for
\* it; every requested pair is handled, in order, whatever happened to the
\* pairs before it.
C19_PerPairRates ==
    /\ fx_pc \in {"idle", "loop", "returned"}
    /\ fx_pc = "returned" =>
          /\ DOMAIN fx_rates = {fx_pairs[k] : k \in 1..Len(fx_pairs)}
          /\ Len(fx_log) = Len(fx_pairs)
          /\ \A k \in 1..Len(fx_pairs) :
                /\ fx_log[k].pair = fx_pairs[k]
                /\ fx_log[k].requested = Unpacks(fx_pairs[k])
          /\ \A p \in DOMAIN fx_rates : fx_rates[p] \in ExpectedRate(LastHandled(p))

\* a call returned after an invalid pair and a failed request were followed
\* by a pair whose rate was fetched, and a pair was requested twice
C19_Witness ==
    /\ fx_pc = "returned"
    /\ \/ /\ Len(fx_pairs) = 5
          /\ fx_log[1].outcome.kind = "http_error"
          /\ fx_log[2].outcome = JsonError(<<"I","n","v","a","l","i","d">>)
          /\ fx_rates[fx_pairs[5]] = <<"1","5","0",".","5","0","0","1">>
       \/ /\ fx_pairs = <<PairNoSlash, PairEurUsd>>
          /\ ~fx_log[1].requested
          /\ fx_rates[PairEurUsd] = <<"1",".","0","8","0","0">>
       \/ /\ fx_pairs = <<PairUsdJpy, PairUsdJpy>>
          /\ fx_log[1].outcome.kind = "http_error"
          /\ fx_rates[PairUsdJpy] = <<"1","5","0",".","5","0","0","1">>


\* the articles of a response that have a description, in the order of the
\* response
RECURSIVE DescribedArticles(_)
DescribedArticles(articles) ==
    IF articles = <<>> THEN <<>>
    ELSE (IF Head(articles).description \in {None, <<>>} THEN <<>> ELSE <<Head(articles)>>)
         \o DescribedArticles(Tail(articles))

\* C20: fetch_financial_news always returns; without a configured
\* NEWSAPI_KEY it returns an empty list and sends no request; when the request
\* times out, fails or gets an HTTP error status it returns an empty list; and
\* otherwise it returns one entry for each article of the response that has a
\* non-empty description, and for no other, in the order of the response.
C20_NewsOrEmpty ==
    /\ nw_pc \in {"idle", "requesting", "returned"}
    /\ (nw_pc = "returned" /\ NEWSAPI_KEY \in {None, <<>>}) =>
          nw_result = <<>> /\ nw_requests = <<>>
    /\ (nw_pc = "returned" /\ NEWSAPI_KEY \notin {None, <<>>}) =>
          /\ Len(nw_requests) = 1
          /\ nw_outcome.kind \in {"timeout", "connection_error", "http_error"} =>
                nw_result = <<>>
          /\ (nw_outcome.kind = "json" /\ nw_outcome.has_articles) =>
                LET described == DescribedArticles(nw_outcome.articles)
                IN /\ Len(nw_result) = Len(described)
                   /\ \A k \in 1..Len(described) :
                         /\ nw_result[k].title = described[k].title
                         /\ nw_result[k].description = described[k].description
                         /\ nw_result[k].url = described[k].url
                         /\ nw_result[k].published_at = described[k].publishedAt

\* a call with a key got two articles, the first without a description, and
\* returned the second alone; or a call without a key returned
C20_Witness ==
    /\ nw_pc = "returned"
    /\ NEWSAPI_KEY = <<"test_key">>
    /\ nw_outcome.kind = "json"
    /\ Len(nw_outcome.articles) = 2
    /\ nw_outcome.articles[1].description = <<>>
    /\ Len(nw_result) = 1
    /\ nw_result[1].title = nw_outcome.articles[2].title


KeptUrls(r) == {KeptRecords(r)[i].url : i \in 1..Len(KeptRecords(r))}

\* C22: two runs in one process work on one used_urls: once a run has
\* started, every URL in it was kept by one of the two runs, it is the set of one run's kept URLs as long
\* as the other run has not started, and a get_sources answer lists URLs of
\* that shared set; with both runs under way it need not be the set of
\* either run (see C22_Witness and C22_LostUrl).
C22_SharedUsedUrls ==
    /\ (\E r \in Runs : pc[r] # "idle")
          => used_urls \subseteq KeptUrls(1) \cup KeptUrls(2)
    /\ \A r \in Runs :
          (GatheringOver(r) /\ \A o \in Runs \ {r} : pc[o] = "idle")
              => used_urls = KeptUrls(r)
    /\ sources_result.status = "returned"
          => {sources_result.sources[i][1] : i \in 1..Len(sources_result.sources)}
                \subseteq KeptUrls(1) \cup KeptUrls(2)

\* both runs are done, each kept one URL, used_urls holds both, and the
\* get_sources answer reports a source that a run did not use
C22_Witness ==
    /\ pc[1] = "done" /\ pc[2] = "done"
    /\ KeptUrls(1) = {UrlS1} /\ KeptUrls(2) = {UrlS2}
    /\ used_urls = {UrlS1, UrlS2}
    /\ sources_result.status = "returned"
    /\ Len(sources_result.sources) = 2

\* run 1 is done and kept a URL, which is gone from used_urls because run 2
\* cleared the set when it started; the get_sources answer omits it
C22_LostUrl ==
    /\ pc[1] = "done" /\ pc[2] = "done"
    /\ KeptUrls(1) = {UrlS1}
    /\ UrlS1 \notin used_urls
    /\ sources_result.status = "returned"
    /\ \A i \in 1..Len(sources_result.sources) : sources_result.sources[i][1] # UrlS1


\* C23: upload_folder writes the Chunk Store strictly before the Vector
\* Index: while the index is being built the store already holds the new
\* batch and the index is still the one from before the call; the index is
\* written only by the last step of a call and the store only by the step
\* before it; and a crash between the two writes leaves the new store beside
\* the previous (or absent) index, which no step other than a later upload
\* touches.
C23_NonTransactionalDualWrite ==
    /\ [](up_pc = "index" =>
            /\ embeddings_pkl.exists /\ embeddings_pkl.chunks = up_chunks
            /\ faiss_idx = up_before[2])
    /\ [][/\ faiss_idx' # faiss_idx => up_pc = "index" /\ up_pc' = "returned"
          /\ embeddings_pkl' # embeddings_pkl => up_pc = "store"
          /\ (up_pc = "index" /\ up_pc' = "idle") =>
                /\ embeddings_pkl'.chunks = up_chunks
                /\ faiss_idx' = up_before[2]]_vars

\* after a crash between the two writes the store holds two chunks and the
\* index, built by an earlier call, still counts one vector
C23_Witness ==
    /\ up_pc = "idle"
    /\ up_data.has_file_paths
    /\ embeddings_pkl.exists /\ Len(embeddings_pkl.chunks) = 2
    /\ embeddings_pkl # up_before[1]
    /\ faiss_idx = up_before[2]
    /\ faiss_idx.exists /\ faiss_idx.ntotal = 1


\* the class-marked containers of a page, the text step 1 takes from them and
\* the text step 2 takes from the headings and long paragraphs of the document
MatchingContainers(page) == SelectSeq(Decompose(page.body), IsContentElement)
ContainerText(page) == ContainerContent(MatchingContainers(page))
HeadingParagraphText(page) == DocumentContent(Decompose(page.body))
CleanedTexts(texts) == {remove_duplicate_sentences(t) : t \in texts}

\* C24 (as amended): the document-wide heading and paragraph pass is taken
\* exactly when step 1 has accumulated no text, which is when no container
\* matches or when the matching containers hold no non-empty heading or
\* paragraph: then a pass of 200 characters or more is the extracted text;
\* when the containers gave text, the extracted text is built from the
\* containers or from the full-page fallback.
C24_SelectionPriority ==
    ScrapeSucceeded
        => LET page == ds_outcome.page
           IN /\ (ContainerText(page) = <<>>
                    /\ Len(HeadingParagraphText(page)) >= ContentMinLen)
                   => ds_info.content = remove_duplicate_sentences(HeadingParagraphText(page))
              /\ ContainerText(page) # <<>>
                   => ds_info.content
                         \in CleanedTexts({ContainerText(page), StrippedPageText(page)})

\* a container matched and held no heading or paragraph: the content is the
\* long paragraph of the document, without the container's own text and
\* without the short paragraph
C24_Witness ==
    /\ ScrapeSucceeded
    /\ ds_outcome.page = PageHollow
    /\ MatchingContainers(PageHollow) # <<>>
    /\ ds_info.content = Rep("w", ContentMinLen + 50) \o <<" ">>

\* C24 as stated: the document-wide pass is taken exactly when no container
\* matches; whenever a container matches, the extracted text is built from
\* the containers or from the full-page fallback.
C24_AsStated ==
    ScrapeSucceeded
        => LET page == ds_outcome.page
           IN /\ (MatchingContainers(page) = <<>>
                    /\ Len(HeadingParagraphText(page)) >= ContentMinLen)
                   => ds_info.content = remove_duplicate_sentences(HeadingParagraphText(page))
              /\ MatchingContainers(page) # <<>>
                   => ds_info.content
                         \in CleanedTexts({ContainerText(page), StrippedPageText(page)})


\* the number of times event e occurs in the calls made by the report
Occurrences(e) == Cardinality({k \in 1..Len(rp_events) : rp_events[k] = e})

\* C25: whenever WANDB_API_KEY, OPENAI_API_KEY and NEWSAPI_KEY are all set,
\* a call of generate_hourly_financial_report that has reached the agent has
\* started a W&B run before, and one that has returned has logged to that run
\* and finished it exactly once, whether the agent succeeded or failed; and a
\* call without OPENAI_API_KEY returns the critical-error message and never
\* invokes the agent.
C25_WandbRunLifecycle ==
    /\ (rp_env.WANDB_API_KEY /\ rp_env.OPENAI_API_KEY /\ rp_env.NEWSAPI_KEY) =>
          /\ rp_pc \in {"agent", "returned"} =>
                Len(rp_events) >= 1 /\ rp_events[1] = "wandb.init"
          /\ rp_pc = "returned" =>
                /\ Occurrences("wandb.init") = 1
                /\ Occurrences("agent_executor.invoke") = 1
                /\ Occurrences("wandb_run.log") = 1
                /\ Occurrences("wandb_run.finish") = 1
    /\ (~rp_env.OPENAI_API_KEY /\ rp_pc = "returned") =>
          /\ rp_result = CriticalError
          /\ Occurrences("agent_executor.invoke") = 0


\* C26: add_webtext changes the conversation if and only if it reports
\* success: a POST with valid JSON and a non-empty textContent appends exactly
\* one user message to the global message_list and is answered with status
\* 200, and a request answered with 405, 400 or 500 leaves message_list as
\* it was.
C26_ChangeIffSuccess ==
    [][\A request \in WebtextRequests :
          AddWebtext(request) =>
             /\ (request.method = "POST" /\ request.json
                   /\ request.textContent \notin {None, <<>>}) =>
                   /\ Len(vw_message_list') = Len(vw_message_list) + 1
                   /\ SubSeq(vw_message_list', 1, Len(vw_message_list)) = vw_message_list
                   /\ vw_message_list'[Len(vw_message_list')].role = "user"
                   /\ vw_response'.status = 200
             /\ vw_response'.status \in {405, 400, 500} =>
                   vw_message_list' = vw_message_list]_vars

\* the messages a responder call added to the list it was handed
AddedBy(call) == {call.local[k] : k \in (Len(call.received) + 1)..Len(call.local)}

\* C27: chat_response and adv_response never modify the global message_list.
\* Every responder is handed a copy of it: a chat or advanced request, for any
\* number of models, leaves the global conversation as it was, and what one
\* call appended is visible neither to another model's call nor to the global
\* conversation that later requests start from.
C27_ConversationUntouched ==
    /\ [](\A i \in 1..Len(vw_seen) :
            /\ vw_seen[i].received = vw_message_list
            /\ \A j \in 1..Len(vw_seen) :
                  \A k \in 1..Len(vw_seen[i].received) :
                     vw_seen[i].received[k] \notin AddedBy(vw_seen[j]))
    /\ [][vw_request'.endpoint \in {"chat_response", "adv_response"}
            => vw_message_list' = vw_message_list]_vars

\* an advanced request for two models on a conversation that holds a page
\* text: both calls appended context and the question to their own lists
C27_Witness ==
    /\ vw_request.endpoint = "adv_response"
    /\ vw_response.status = 200
    /\ Len(vw_seen) = 2
    /\ Len(vw_message_list) = 2
    /\ \A i \in 1..2 : Len(vw_seen[i].local) = Len(vw_seen[i].received) + 2
    /\ vw_seen[2].received = vw_message_list

\* what a page may gain before and after a text
Affixes == {<<>>, <<" ">>, <<"s">>, <<"Α">>, <<" ","n","e","w","s">>}

\* C28: the relevance filter is monotone in the text: when t occurs in t' and
\* keyword_match(query, t) holds, keyword_match(query, t') holds; adding
\* content to a page never turns a relevant page into an irrelevant one.
C28_MonotoneInText ==
    (kw_pc = "returned" /\ kw_result)
        => \A before \in Affixes, after \in Affixes :
              keyword_match(kw_query, before \o kw_text \o after)

\* C29: remove_duplicate_sentences is idempotent and its output is free of
\* adjacent repeats: applying it to its own result gives that result again,
\* and no two neighbouring sentences of the result, split as the function
\* splits, are equal.
C29_IdempotentNoAdjacentRepeats ==
    rd_pc = "returned"
        => LET again == SplitSentences(rd_result) IN
           /\ remove_duplicate_sentences(rd_result) = rd_result
           /\ \A i \in 1..(Len(again) - 1) : again[i] # again[i + 1]

\* a text with a repeated sentence after another one: the repeat was dropped
C29_Witness ==
    /\ rd_pc = "returned"
    /\ rd_parts = <<SentSellLater, SentBuyNow, SentBuyNow, SentAnd>>
    /\ rd_result # rd_text
    /\ Len(SplitSentences(rd_result)) = 3

\* C30: data_scrape returns status 'success' only for an HTTP status of
\* exactly 200; any other status code, 201 and 204 included, gives an 'error'
\* result whose reason names the status code and which has no metadata and
\* no content field.
C30_SuccessOnlyFor200 ==
    ds_pc = "returned"
        => /\ ds_info.status = "success"
                 => ds_outcome.kind = "response" /\ ds_outcome.status_code = 200
           /\ (ds_outcome.kind = "response" /\ ds_outcome.status_code # 200)
                 => /\ ds_info.status = "error"
                    /\ ds_info.error = <<"Status code", ds_outcome.status_code>>
                    /\ DOMAIN ds_info = {"url", "status", "error"}

\* a 204 answer that carries a page all the same
C30_Witness ==
    /\ ds_pc = "returned"
    /\ ds_outcome = Response(204, PageRates)
    /\ ds_info = [url |-> ds_url, status |-> "error", error |-> <<"Status code", 204>>]
====
